---- MODULE Spec2Model ----
(***************************************************************************)
(* File Verification Code (FVC2): the archive identity graph that guards   *)
(* the recursive extraction against quines, the traversal that walks       *)
(* directories and extracts archives, and the hasher that folds the leaf   *)
(* digests into the code.                                                  *)
(***************************************************************************)
EXTENDS Integers, Sequences, FiniteSets, Bags, TLC

\* ------------------------------------------------------------------------
\* Bounds of the model
\* ------------------------------------------------------------------------
\* digests the graph operations are exercised with (SpecDag)
NDagDigest == 3
\* edges pushed onto sub_archives vectors in one SpecDag behaviour
MaxEdges == 3

DagDigests == 1..NDagDigest

\* paths of one filesystem beside the first input path: the further input
\* paths, the entries of the input directories and the members of the
\* archives, all together
MaxFiles == 2
\* call frames the traversal of process_extract may stack before the process
\* runs out of stack
MaxDepth == 8
\* process/mod.rs has no guard against quines: how many extractions of one
\* archive its traversal may have under way, one inside the other, before
\* the recursion is taken to go on until the stack is exhausted
MaxNesting == 1

\* digests whose bytes are a valid archive, and digests of plain files
TravArch == {1, 2}
TravLeaf == {3}
TravDigests == TravArch \cup TravLeaf
\* the values is_extractable returns
Confidence == {0, 50, 100}
\* ExtractPolicy
Policies == {"None", "Extension", "All"}

\* digests the hasher is exercised with (SpecHasher), and how many one
\* hasher may ingest
NHashDigest == 2
MaxIngest == 3
HashDigests == 1..NHashDigest

VARIABLES
    dag,        \* ArchiveGraph.archives of the graph exercised through its API
    lastOp,     \* the last graph operation: its arguments, result and pre-state
    policy,     \* ExtractionProcessor.extract_policy
    contents,   \* filesystem: what extracting each archive digest yields
    inputs,     \* the paths given to calculate_fvc
    pc,         \* calculate_fvc: "run", then "ok" | "err" | "panic" | "hang" | "overflow"
    idx,        \* calculate_fvc: index of the input path being processed
    collections,\* calculate_fvc: the collections gathered so far
    stack,      \* frames of calculate_fvc_of / extract_or_process_file
    ret,        \* the io::Result<Collection> a frame has just returned
    graph,      \* the ArchiveGraph of the input path being traversed
    tmpLive,    \* temp directories that exist (TempDir neither closed nor dropped)
    sha256s,    \* FVC2Hasher.sha256s
    sorted,     \* FVC2Hasher.sorted
    envFault,   \* whether the environment failed (I/O error, a valid archive
                \* the extractor refused, a close error)
    ioError,    \* whether stat, open, read, TempDir::new or the extractor
                \* has reported an I/O error
    runs,       \* results of the completed calculate_fvc runs on this filesystem
    hashers,    \* two FVC2Hashers exercised through their API
    hlog,       \* of each: the digests ingested, in order, and the code
                \* the last sum() returned since the last ingest
    cls,        \* a path given to is_extractable, whether its .idx sibling
                \* exists, and the value returned
    tree,       \* an Archive record built through its API, the JSON text it
                \* was serialized to and the record read back from that
    hhist       \* of the first hasher when it is exercised alone: the last
                \* call, what it returned, and the code sum had returned
                \* before the last ingest

dagVars == <<dag, lastOp>>
hashVars == <<hashers, hlog, hhist>>
travVars == <<policy, contents, inputs, pc, idx, collections, stack, ret, graph,
              tmpLive, sha256s, sorted, envFault, ioError, runs>>
vars == <<dag, lastOp, policy, contents, inputs, pc, idx, collections, stack, ret,
          graph, tmpLive, sha256s, sorted, envFault, ioError, runs, hashers, hlog, hhist, cls, tree>>

\* ------------------------------------------------------------------------
\* dag.rs : ArchiveGraph
\* ------------------------------------------------------------------------
MinOf(S) == CHOOSE x \in S : \A y \in S : x <= y

\* ArchiveGraph::new : an empty HashMap
ArchiveGraph_new == <<>>

\* Archive::new : a node with no sub archives
DagArchive_new(sha256) == [sha256 |-> sha256, sub_archives |-> <<>>]

\* an insert that starts the map afresh: the digests registered before are
\* forgotten
insert_forgets(g, sha256) == [d \in {sha256} |-> DagArchive_new(sha256)]

\* ArchiveGraph::insert : HashMap::insert, which replaces the value of a
\* key that is already present
insert(g, sha256) ==
    [d \in (DOMAIN g) \cup {sha256} |->
        IF d = sha256 THEN DagArchive_new(sha256) ELSE g[d]]

\* ArchiveGraph::contains
contains(g, needle) == needle \in DOMAIN g

\* ArchiveGraph::archive_can_find, the depth first search.  The search
\* visits the sub archives in vector order and returns at the first hit.
\* fuel counts the registered nodes a path may still visit: a path that
\* needs more has come back to a node it already visited, and from there the
\* search repeats itself for ever ("diverge").
RECURSIVE can_find(_, _, _, _)
can_find(g, start, destination, fuel) ==
    IF start = destination THEN "true"
    ELSE IF start \notin DOMAIN g THEN "false"
    ELSE IF destination \notin DOMAIN g THEN "false"
    ELSE IF fuel = 0 THEN "diverge"
    ELSE LET subs == g[start].sub_archives
             sub(i) == IF subs[i] \in DOMAIN g
                       THEN can_find(g, g[subs[i]].sha256,
                                     g[destination].sha256, fuel - 1)
                       ELSE "false"
             hits == {i \in 1..Len(subs) : sub(i) # "false"}
         IN  IF hits = {} THEN "false" ELSE sub(MinOf(hits))

archive_can_find(g, start, destination) ==
    can_find(g, start, destination, Cardinality(DOMAIN g))

\* add_edge without the reachability check
add_edge_unchecked(g, from, to) ==
    IF from \notin DOMAIN g THEN [result |-> "KeyMissing", graph |-> g]
    ELSE [result |-> "Ok",
          graph |-> [g EXCEPT ![from].sub_archives = Append(@, to)]]

\* add_edge that records the edge before it looks for a cycle
add_edge_push_first(g, from, to) ==
    LET pushed == IF from \in DOMAIN g
                  THEN [g EXCEPT ![from].sub_archives = Append(@, to)]
                  ELSE g
        found == archive_can_find(g, to, from)
    IN  IF found = "diverge" THEN [result |-> "Diverge", graph |-> pushed]
        ELSE IF found = "true" THEN [result |-> "CycleDetected", graph |-> pushed]
        ELSE IF from \notin DOMAIN g THEN [result |-> "KeyMissing", graph |-> pushed]
        ELSE [result |-> "Ok", graph |-> pushed]

\* an add_edge that takes every registered target for a cycle
add_edge_seen_is_cycle(g, from, to) ==
    IF to = from \/ to \in DOMAIN g THEN [result |-> "CycleDetected", graph |-> g]
    ELSE IF from \notin DOMAIN g THEN [result |-> "KeyMissing", graph |-> g]
    ELSE [result |-> "Ok",
          graph |-> [g EXCEPT ![from].sub_archives = Append(@, to)]]

\* ArchiveGraph::add_edge
add_edge(g, from, to) ==
    LET found == archive_can_find(g, to, from) IN
    IF found = "diverge" THEN [result |-> "Diverge", graph |-> g]
    ELSE IF found = "true" THEN [result |-> "CycleDetected", graph |-> g]
    ELSE IF from \notin DOMAIN g THEN [result |-> "KeyMissing", graph |-> g]
    ELSE [result |-> "Ok",
          graph |-> [g EXCEPT ![from].sub_archives = Append(@, to)]]

\* the edge relation of a graph: node -> each of its sub_archives
EdgesOf(g) ==
    UNION {{<<a, g[a].sub_archives[i]>> : i \in 1..Len(g[a].sub_archives)} :
               a \in DOMAIN g}

\* version_2.rs : FVC2Hasher::new
FVC2Hasher_new == [sha256s |-> <<>>, sorted |-> FALSE]

\* no code returned yet
NoCode == [version |-> <<>>, hash |-> <<>>]

\* what is known of a hasher just made by FVC2Hasher::new
FreshLog == [ingested |-> <<>>, code |-> NoCode, result |-> "none"]

\* no string returned by the last call
NoText == [version |-> <<>>, hash |-> <<>>]

\* nothing called yet on a hasher just made; sums: whether sum has run,
\* by itself or in hex, never (0), once (1) or more often (2) since the
\* last ingest
FreshHist == [op |-> "new", text |-> NoText, stale |-> NoCode, sums |-> 0]

\* is_extractable not called
NotRated == 255

\* a path: whether it starts at the root, its directories, the stem and
\* the extension of its file name
NoPath == [root |-> FALSE, dirs |-> <<>>, stem |-> "", ext |-> [tag |-> "None"]]

HasherIdle ==
    /\ hashers = [i \in 1..2 |-> FVC2Hasher_new]
    /\ hlog = [i \in 1..2 |-> FreshLog]
    /\ hhist = FreshHist

ExtractIdle == cls = [path |-> NoPath, idx |-> FALSE, result |-> NotRated]

\* no Archive record made, nothing serialized, nothing read back
Nothing == [tag |-> "none"]
TreeIdle == tree = [archive |-> Nothing, serialized |-> Nothing, deserialized |-> Nothing]

\* ------------------------------------------------------------------------
\* SpecDag : the graph exercised through insert / add_edge / contains
\* ------------------------------------------------------------------------
TotalEdges(g) ==
    LET RECURSIVE Sum(_)
        Sum(S) == IF S = {} THEN 0
                  ELSE LET x == CHOOSE y \in S : TRUE
                       IN Len(g[x].sub_archives) + Sum(S \ {x})
    IN Sum(DOMAIN g)

InitDag ==
    /\ HasherIdle /\ ExtractIdle /\ TreeIdle
    /\ dag = ArchiveGraph_new
    /\ lastOp = [op |-> "new", a |-> 0, b |-> 0, result |-> "", before |-> ArchiveGraph_new]
    /\ policy = "None" /\ contents = <<>> /\ inputs = <<>>
    /\ pc = "idle" /\ idx = 0 /\ collections = <<>> /\ stack = <<>>
    /\ ret = [tag |-> "none"]
    /\ graph = ArchiveGraph_new /\ tmpLive = {}
    /\ sha256s = <<>> /\ sorted = FALSE /\ envFault = FALSE /\ ioError = FALSE /\ runs = <<>>

DagInsert ==
    \E d \in DagDigests :
        /\ dag' = insert(dag, d)
        /\ lastOp' = [op |-> "insert", a |-> d, b |-> 0, result |-> "", before |-> dag]
        /\ UNCHANGED <<travVars, hashVars, cls, tree>>

DagAddEdge ==
    \E from \in DagDigests, to \in DagDigests :
        LET r == add_edge(dag, from, to) IN
        /\ TotalEdges(dag) < MaxEdges
        /\ dag' = r.graph
        /\ lastOp' = [op |-> "add_edge", a |-> from, b |-> to,
                      result |-> r.result, before |-> dag]
        /\ UNCHANGED <<travVars, hashVars, cls, tree>>

DagContains ==
    \E d \in DagDigests :
        /\ dag' = dag
        /\ lastOp' = [op |-> "contains", a |-> d, b |-> 0,
                      result |-> IF contains(dag, d) THEN "true" ELSE "false",
                      before |-> dag]
        /\ UNCHANGED <<travVars, hashVars, cls, tree>>

NextDag == DagInsert \/ DagAddEdge \/ DagContains

SpecDag == InitDag /\ [][NextDag]_vars

\* ------------------------------------------------------------------------
\* archive_tree : Collection, and the hasher that consumes it
\* ------------------------------------------------------------------------
\* name and size of File / Archive are never read by the traversal or by
\* the hasher and are left out; the maps are keyed by path, here by the
\* position of the entry in its directory listing.
Empty == [tag |-> "Empty"]
File_new(sha256) == [tag |-> "File", sha256 |-> sha256]
Archive_new(sha256) ==
    [tag |-> "Archive", sha256 |-> sha256, files |-> <<>>, archives |-> <<>>]
Directory_new == [tag |-> "Directory", files |-> <<>>, archives |-> <<>>]

\* HashMap::insert
MapPut(m, key, v) ==
    [x \in (DOMAIN m) \cup {key} |-> IF x = key THEN v ELSE m[x]]

\* the sequences that enumerate a finite set, in every order
RECURSIVE Orders(_)
Orders(S) ==
    IF S = {} THEN {<<>>}
    ELSE UNION {{<<x>> \o t : t \in Orders(S \ {x})} : x \in S}

RECURSIVE FlattenSeq(_)
FlattenSeq(ss) == IF ss = <<>> THEN <<>> ELSE Head(ss) \o FlattenSeq(Tail(ss))

\* a hash_collection that also reads the digest of each archive it descends
\* into
RECURSIVE hash_collection_reads_archives(_)
hash_collection_reads_archives(c) ==
    IF c.tag = "Empty" THEN {<<>>}
    ELSE IF c.tag = "File" THEN {<<c.sha256>>}
    ELSE LET own == IF c.tag = "Archive" THEN <<c.sha256>> ELSE <<>>
             fileSeqs ==
                 {[i \in 1..Len(p) |-> c.files[p[i]].sha256] :
                      p \in Orders(DOMAIN c.files)}
             sub == [k \in DOMAIN c.archives |->
                        hash_collection_reads_archives(c.archives[k])]
             picks == {f \in [DOMAIN c.archives -> UNION {sub[k] : k \in DOMAIN c.archives}] :
                           \A k \in DOMAIN c.archives : f[k] \in sub[k]}
             archSeqs ==
                 {FlattenSeq([i \in 1..Len(q) |-> f[q[i]]]) :
                      q \in Orders(DOMAIN c.archives), f \in picks}
         IN  {own \o x \o y : x \in fileSeqs, y \in archSeqs}

\* hash_collection: the sequences of digests it may pass to read_sha256.
\* It reads the files of a collection, then its archives recursively; a
\* HashMap is iterated in an unspecified order, so every order is possible.
RECURSIVE hash_collection(_)
hash_collection(c) ==
    IF c.tag = "Empty" THEN {<<>>}
    ELSE IF c.tag = "File" THEN {<<c.sha256>>}
    ELSE LET fileSeqs ==
                 {[i \in 1..Len(p) |-> c.files[p[i]].sha256] :
                      p \in Orders(DOMAIN c.files)}
             sub == [k \in DOMAIN c.archives |-> hash_collection(c.archives[k])]
             picks == {f \in [DOMAIN c.archives -> UNION {sub[k] : k \in DOMAIN c.archives}] :
                           \A k \in DOMAIN c.archives : f[k] \in sub[k]}
             archSeqs ==
                 {FlattenSeq([i \in 1..Len(q) |-> f[q[i]]]) :
                      q \in Orders(DOMAIN c.archives), f \in picks}
         IN  {a \o b : a \in fileSeqs, b \in archSeqs}

\* version_2.rs : FVC2Hasher.  A digest stands for a [u8; 32]; arrays
\* compare as the digests that stand for them.

\* a read_sha256 that stores a digest once only
read_sha256_once(h, sha256) ==
    IF \E k \in 1..Len(h.sha256s) : h.sha256s[k] = sha256
    THEN [sha256s |-> h.sha256s, sorted |-> FALSE]
    ELSE [sha256s |-> Append(h.sha256s, sha256), sorted |-> FALSE]

\* read_sha256 without line 94: the flag survives the push
read_sha256_keeps_sorted(h, sha256) ==
    [sha256s |-> Append(h.sha256s, sha256), sorted |-> h.sorted]

read_sha256(h, sha256) == [sha256s |-> Append(h.sha256s, sha256), sorted |-> FALSE]

\* read_sha256 for each digest of a sequence, in order
RECURSIVE read_sha256s(_, _)
read_sha256s(h, ds) ==
    IF ds = <<>> THEN h ELSE read_sha256s(read_sha256(h, Head(ds)), Tail(ds))

\* Vec::sort
RECURSIVE sort(_)
sort(v) ==
    IF v = <<>> THEN <<>>
    ELSE LET i == CHOOSE j \in 1..Len(v) : \A k \in 1..Len(v) : v[j] <= v[k]
         IN  <<v[i]>> \o sort(SubSeq(v, 1, i - 1) \o SubSeq(v, i + 1, Len(v)))

\* SHA-256 of the bytes fed to it, as a constructor: two digests are equal
\* only if the bytes fed are
Sha256(fed) == <<"sha256", fed>>

\* b'F', b'V', b'C', b'2', 0
VersionPrefix == <<70, 86, 67, 50, 0>>

\* the bytes of a SHA-256: hash: [u8; 32]
Sha256Len == 32

\* the bytes of a code: those of the version, then those of the hash
CodeLen(code) == Len(code.version) + Sha256Len

\* a sum whose version lacks the closing 0
sum_short_version(h) ==
    LET sha256s1 == IF ~h.sorted THEN sort(h.sha256s) ELSE h.sha256s
    IN  [hasher |-> [sha256s |-> sha256s1, sorted |-> TRUE],
         code |-> [version |-> <<70, 86, 67, 50>>, hash |-> Sha256(sha256s1)]]

\* a sum that consumes the digests it has fed
sum_drains(h) ==
    LET sha256s1 == IF ~h.sorted THEN sort(h.sha256s) ELSE h.sha256s
    IN  [hasher |-> [sha256s |-> <<>>, sorted |-> TRUE],
         code |-> [version |-> VersionPrefix, hash |-> Sha256(sha256s1)]]

\* sum without lines 41-45: the digests are fed in the order they are stored
sum_without_sort(h) ==
    [hasher |-> [sha256s |-> h.sha256s, sorted |-> TRUE],
     code |-> [version |-> VersionPrefix, hash |-> Sha256(h.sha256s)]]

\* FVC2Hasher::sum: the hasher it leaves and the code it returns
sum(h) ==
    LET sha256s1 == IF ~h.sorted THEN sort(h.sha256s) ELSE h.sha256s
    IN  [hasher |-> [sha256s |-> sha256s1, sorted |-> TRUE],
         code |-> [version |-> VersionPrefix, hash |-> Sha256(sha256s1)]]

\* hex::ToHex of a byte: two lowercase digits
HexDigits == <<"0", "1", "2", "3", "4", "5", "6", "7", "8", "9",
               "a", "b", "c", "d", "e", "f">>

RECURSIVE encode_hex_bytes(_)
encode_hex_bytes(bs) ==
    IF bs = <<>> THEN <<>>
    ELSE <<HexDigits[(Head(bs) \div 16) + 1], HexDigits[(Head(bs) % 16) + 1]>>
            \o encode_hex_bytes(Tail(bs))

\* code.encode_hex::<String>(): the digits of the version bytes, then those
\* of the hash
encode_hex(code) ==
    [version |-> encode_hex_bytes(code.version), hash |-> <<"hex", code.hash>>]

\* FVC2Hasher::hex: the hasher it leaves, the code sum returned to it and
\* the string it returns
hex(h) ==
    LET r == sum(h)
    IN  [hasher |-> r.hasher, code |-> r.code, text |-> encode_hex(r.code)]

\* ------------------------------------------------------------------------
\* process_extract/mod.rs : the traversal
\* ------------------------------------------------------------------------
NoRet == [tag |-> "none"]
RetErr == [tag |-> "Err"]
RetOk(c) == [tag |-> "Ok", val |-> c]

\* a frame of extract_or_process_file
FileFrame(current, entry) ==
    [k |-> "file", current |-> current, entry |-> entry, pc |-> "begin",
     branch |-> "", tmp |-> 0, archive |-> Empty]

\* a frame of calculate_fvc_of walking a directory; current = 0 is None
DirFrame(current, listing) ==
    [k |-> "dir", current |-> current, listing |-> listing,
     todo |-> 1..Len(listing), at |-> 0, dir |-> Directory_new]

Top == stack[Len(stack)]
Pop == SubSeq(stack, 1, Len(stack) - 1)
SetTop(f) == [stack EXCEPT ![Len(stack)] = f]

\* an is_extractable that knows no "maybe": a path it would rate 50 is
\* rated 0
is_extractable_without_maybe(entry) == IF entry.conf = 100 THEN 100 ELSE 0

\* is_extractable of the path of an entry
is_extractable(entry) == entry.conf

\* an open_archive that returns the path of the temp directory and lets the
\* TempDir go out of scope: the directory is removed when it returns
open_archive_drops_tmp(live, id, outcome) ==
    IF outcome = "tmp_err"
    THEN [result |-> "Io", live |-> live, tmp |-> 0]
    ELSE IF outcome = "ok"
    THEN [result |-> "Ok", live |-> live, tmp |-> id]
    ELSE [result |-> IF outcome = "io" THEN "Io" ELSE "Other",
          live |-> live, tmp |-> 0]

\* open_archive: creates a temp directory and extracts into it; on an
\* extraction error the temp directory is closed here.  outcome is what the
\* environment does: "tmp_err" (TempDir::new fails), "io" / "format" (the
\* extractor fails), "ok".  id names the new directory.
open_archive(live, id, outcome) ==
    IF outcome = "tmp_err"
    THEN [result |-> "Io", live |-> live, tmp |-> 0]
    ELSE IF outcome = "ok"
    THEN [result |-> "Ok", live |-> live \cup {id}, tmp |-> id]
    ELSE [result |-> IF outcome = "io" THEN "Io" ELSE "Other",
          live |-> live, tmp |-> 0]

\* a frame that forgets the files of the directory it extracted
lift_collection_drops_files(archive, c) ==
    IF c.tag = "Directory" THEN [archive EXCEPT !.archives = c.archives]
    ELSE archive

\* what a frame does with the collection its recursion returned (the match
\* on the collection in each extraction arm)
lift_collection(archive, c) ==
    IF c.tag = "File" THEN [archive EXCEPT !.files = MapPut(@, 0, c)]
    ELSE IF c.tag = "Archive" THEN [archive EXCEPT !.archives = MapPut(@, 0, c)]
    ELSE IF c.tag = "Directory"
    THEN [archive EXCEPT !.files = c.files, !.archives = c.archives]
    ELSE archive

TravRest == UNCHANGED <<dag, lastOp, policy, contents, inputs, runs, hashers, hlog, hhist, cls, tree>>

\* a calculate_fvc that makes one graph for the whole call and passes it to
\* calculate_fvc_of for every input path
CalcNextInput_one_graph ==
    /\ pc = "run" /\ stack = <<>> /\ ret = NoRet /\ idx <= Len(inputs)
    /\ graph' = graph
    /\ \E statOk \in BOOLEAN :
          IF ~statOk
          THEN /\ ret' = RetErr /\ envFault' = TRUE /\ ioError' = TRUE /\ stack' = stack
          ELSE /\ envFault' = envFault /\ ioError' = ioError
               /\ IF inputs[idx].kind = "file"
                  THEN stack' = <<FileFrame(0, inputs[idx].entry)>> /\ ret' = ret
                  ELSE IF inputs[idx].kind = "dir"
                  THEN stack' = <<DirFrame(0, inputs[idx].listing)>> /\ ret' = ret
                  ELSE stack' = stack /\ ret' = RetOk(Empty)
    /\ UNCHANGED <<pc, idx, collections, tmpLive, sha256s, sorted>>
    /\ TravRest

\* calculate_fvc: the loop takes the next input path and calls
\* calculate_fvc_of with a new graph; metadata() may fail.
CalcNextInput ==
    /\ pc = "run" /\ stack = <<>> /\ ret = NoRet /\ idx <= Len(inputs)
    /\ graph' = ArchiveGraph_new
    /\ \E statOk \in BOOLEAN :
          IF ~statOk
          THEN /\ ret' = RetErr /\ envFault' = TRUE /\ ioError' = TRUE /\ stack' = stack
          ELSE /\ envFault' = envFault /\ ioError' = ioError
               /\ IF inputs[idx].kind = "file"
                  THEN stack' = <<FileFrame(0, inputs[idx].entry)>> /\ ret' = ret
                  ELSE IF inputs[idx].kind = "dir"
                  THEN stack' = <<DirFrame(0, inputs[idx].listing)>> /\ ret' = ret
                  ELSE stack' = stack /\ ret' = RetOk(Empty)
    /\ UNCHANGED <<pc, idx, collections, tmpLive, sha256s, sorted>>
    /\ TravRest

\* a calculate_fvc that hashes the collection of each input path as soon as
\* it has it
CalcCollect_hashes_at_once ==
    /\ pc = "run" /\ stack = <<>> /\ ret # NoRet
    /\ IF ret.tag = "Ok"
       THEN /\ collections' = Append(collections, Empty)
            /\ idx' = idx + 1
            /\ pc' = pc
            /\ \E fed \in hash_collection(ret.val) :
                  LET h == read_sha256s([sha256s |-> sha256s, sorted |-> sorted], fed)
                  IN  sha256s' = h.sha256s /\ sorted' = h.sorted
       ELSE /\ pc' = "err"
            /\ UNCHANGED <<collections, idx, sha256s, sorted>>
    /\ ret' = NoRet
    /\ UNCHANGED <<stack, graph, tmpLive, envFault, ioError>>
    /\ TravRest

\* calculate_fvc: the result of calculate_fvc_of for an input path
CalcCollect ==
    /\ pc = "run" /\ stack = <<>> /\ ret # NoRet
    /\ IF ret.tag = "Ok"
       THEN /\ collections' = Append(collections, ret.val)
            /\ idx' = idx + 1
            /\ pc' = pc
       ELSE /\ pc' = "err"
            /\ UNCHANGED <<collections, idx>>
    /\ ret' = NoRet
    /\ UNCHANGED <<stack, graph, tmpLive, sha256s, sorted, envFault, ioError>>
    /\ TravRest

\* calculate_fvc: every input path is processed, the collections are hashed
CalcHash ==
    /\ pc = "run" /\ stack = <<>> /\ ret = NoRet /\ idx > Len(inputs)
    /\ \E fed \in [1..Len(collections) -> UNION {hash_collection(collections[i]) :
                                                   i \in 1..Len(collections)}] :
          /\ \A i \in 1..Len(collections) : fed[i] \in hash_collection(collections[i])
          /\ LET h == read_sha256s([sha256s |-> sha256s, sorted |-> sorted],
                                   FlattenSeq(fed))
             IN sha256s' = h.sha256s /\ sorted' = h.sorted
    /\ pc' = "ok"
    /\ UNCHANGED <<idx, collections, stack, ret, graph, tmpLive, envFault, ioError>>
    /\ TravRest

\* calculate_fvc_of, directory: the WalkDir loop takes the next file
WalkStep ==
    /\ pc = "run" /\ stack # <<>> /\ ret = NoRet
    /\ Top.k = "dir" /\ Top.todo # {}
    /\ \E i \in Top.todo, walkOk \in BOOLEAN :
          IF ~walkOk
          THEN /\ stack' = Pop /\ ret' = RetErr /\ envFault' = TRUE /\ ioError' = TRUE
          ELSE /\ stack' = Append(SetTop([Top EXCEPT !.todo = @ \ {i}, !.at = i]),
                                  FileFrame(Top.current, Top.listing[i]))
               /\ ret' = ret /\ envFault' = envFault /\ ioError' = ioError
    /\ UNCHANGED <<pc, idx, collections, graph, tmpLive, sha256s, sorted>>
    /\ TravRest

\* calculate_fvc_of, directory: the result of extract_or_process_file
WalkCollect ==
    /\ pc = "run" /\ stack # <<>> /\ ret # NoRet
    /\ Top.k = "dir"
    /\ IF ret.tag = "Err"
       THEN stack' = Pop /\ ret' = ret /\ pc' = pc
       ELSE IF ret.val.tag = "Directory"
       THEN stack' = stack /\ ret' = NoRet /\ pc' = "panic"
       ELSE /\ ret' = NoRet /\ pc' = pc
            /\ stack' = SetTop(
                 IF ret.val.tag = "File"
                 THEN [Top EXCEPT !.dir.files = MapPut(@, Top.at, ret.val)]
                 ELSE IF ret.val.tag = "Archive"
                 THEN [Top EXCEPT !.dir.archives = MapPut(@, Top.at, ret.val)]
                 ELSE Top)
    /\ UNCHANGED <<idx, collections, graph, tmpLive, sha256s, sorted, envFault, ioError>>
    /\ TravRest

\* calculate_fvc_of, directory: the walk is over
WalkReturn ==
    /\ pc = "run" /\ stack # <<>> /\ ret = NoRet
    /\ Top.k = "dir" /\ Top.todo = {}
    /\ stack' = Pop
    /\ ret' = RetOk(Top.dir)
    /\ UNCHANGED <<pc, idx, collections, graph, tmpLive, sha256s, sorted, envFault, ioError>>
    /\ TravRest

\* a panic unwinds the stack: every TempDir a frame still holds is dropped
Unwound == [stack |-> <<>>,
            live |-> tmpLive \ {stack[i].tmp : i \in {j \in 1..Len(stack) : stack[j].k = "file"}}]

\* an extract_or_process_file without the arm of ExtractPolicy::None
FileBeginEffect_without_none(readOk) ==
    LET d == Top.entry.sha256
        same == [stack |-> stack, ret |-> NoRet, pc |-> "run", graph |-> graph,
                 live |-> tmpLive, fault |-> envFault, io |-> ioError]
        goto(p, b) == [same EXCEPT !.stack = SetTop([Top EXCEPT !.pc = p, !.branch = b])]
        return(r) == [same EXCEPT !.stack = Pop, !.ret = r]
    IN  IF ~readOk THEN [return(RetErr) EXCEPT !.fault = TRUE, !.io = TRUE]
        ELSE IF contains(graph, d) /\ Top.current # 0
        THEN LET r == add_edge(graph, Top.current, d) IN
             IF r.result = "Ok" THEN [goto("open", "known") EXCEPT !.graph = r.graph]
             ELSE IF r.result = "CycleDetected"
             THEN [return(RetOk(Empty)) EXCEPT !.graph = r.graph]
             ELSE [same EXCEPT !.pc = "panic", !.stack = Unwound.stack,
                               !.live = Unwound.live, !.graph = r.graph]
        ELSE IF contains(graph, d) THEN goto("open", "known")
        ELSE IF policy = "Extension" /\ is_extractable(Top.entry) = 0
        THEN goto("asfile", "")
        ELSE IF is_extractable(Top.entry) = 100 THEN goto("open", "c100")
        ELSE goto("open", "other")

\* extract_or_process_file, up to the decision what to do with the file:
\* read it (policy None: File::new; otherwise get_sha256), look the digest
\* up in the graph, add the edge current -> digest for a known archive, or
\* classify the path.  readOk: whether the file could be read.
FileBeginEffect(readOk) ==
    LET d == Top.entry.sha256
        same == [stack |-> stack, ret |-> NoRet, pc |-> "run", graph |-> graph,
                 live |-> tmpLive, fault |-> envFault, io |-> ioError]
        goto(p, b) == [same EXCEPT !.stack = SetTop([Top EXCEPT !.pc = p, !.branch = b])]
        return(r) == [same EXCEPT !.stack = Pop, !.ret = r]
    IN  IF ~readOk THEN [return(RetErr) EXCEPT !.fault = TRUE, !.io = TRUE]
        ELSE IF policy = "None" THEN return(RetOk(File_new(d)))
        ELSE IF contains(graph, d) /\ Top.current # 0
        THEN LET r == add_edge(graph, Top.current, d) IN
             IF r.result = "Ok" THEN [goto("open", "known") EXCEPT !.graph = r.graph]
             ELSE IF r.result = "CycleDetected"
             THEN [return(RetOk(Empty)) EXCEPT !.graph = r.graph]
             ELSE IF r.result = "KeyMissing"
             THEN [same EXCEPT !.pc = "panic", !.stack = Unwound.stack,
                               !.live = Unwound.live, !.graph = r.graph]
             ELSE [same EXCEPT !.pc = "hang", !.graph = r.graph]
        ELSE IF contains(graph, d) THEN goto("open", "known")
        ELSE IF policy = "Extension" /\ is_extractable(Top.entry) = 0
        THEN goto("asfile", "")
        ELSE IF is_extractable(Top.entry) = 100 THEN goto("open", "c100")
        ELSE goto("open", "other")

FileBegin ==
    /\ pc = "run" /\ stack # <<>> /\ ret = NoRet
    /\ Top.k = "file" /\ Top.pc = "begin"
    /\ \E readOk \in BOOLEAN :
          LET e == FileBeginEffect(readOk) IN
          /\ stack' = e.stack /\ ret' = e.ret /\ pc' = e.pc /\ graph' = e.graph
          /\ tmpLive' = e.live /\ envFault' = e.fault /\ ioError' = e.io
    /\ UNCHANGED <<idx, collections, sha256s, sorted>>
    /\ TravRest

\* what the environment may do when a file is opened as an archive:
\* "meta_err": metadata() fails in Archive::new; "tmp_err", "io", "format":
\* see open_archive; "ok": extracted; "ok_stat_err": extracted, then
\* metadata() of the temp directory fails in calculate_fvc_of.
OpenOutcomes(d) ==
    {"meta_err", "tmp_err", "io", "format"}
        \cup (IF d \in TravArch THEN {"ok", "ok_stat_err"} ELSE {})

\* TempDir's Drop, when a frame returns with the directory still open
drop_tmp(live, tmp) == live \ {tmp}

\* TempDir::close
close_tmp(live, tmp) == live \ {tmp}

\* an extraction arm that registers the digest before it calls open_archive
FileOpenEffect_insert_first(outcome) ==
    LET d == Top.entry.sha256
        b == Top.branch
        same == [stack |-> stack, ret |-> NoRet, pc |-> "run", graph |-> graph,
                 live |-> tmpLive, fault |-> envFault, io |-> ioError]
        return(r) == [same EXCEPT !.stack = Pop, !.ret = r]
        \* Archive::new comes before open_archive except in the last arm
        metaFirst == b \in {"known", "c100"}
        o == open_archive(tmpLive, Len(stack),
                          IF outcome \in {"ok_stat_err", "meta_err"} THEN "ok" ELSE outcome)
        inserted == IF b = "known" THEN graph ELSE insert(graph, d)
        frame == [Top EXCEPT !.pc = "recursing", !.tmp = o.tmp, !.archive = Archive_new(d)]
    IN  IF outcome = "meta_err" /\ metaFirst THEN [return(RetErr) EXCEPT !.fault = TRUE, !.io = TRUE]
        ELSE IF o.result = "Io"
        THEN [return(RetErr) EXCEPT !.graph = inserted, !.live = o.live,
                                    !.fault = TRUE, !.io = TRUE]
        ELSE IF o.result = "Other"
        THEN IF b = "known"
             THEN [same EXCEPT !.pc = "panic", !.stack = Unwound.stack,
                               !.live = Unwound.live,
                               !.fault = envFault \/ d \in TravArch]
             ELSE [same EXCEPT !.stack = SetTop([Top EXCEPT !.pc = "asfile"]),
                               !.graph = inserted, !.live = o.live,
                               !.fault = envFault \/ d \in TravArch]
        ELSE IF outcome = "meta_err"
        THEN [return(RetErr) EXCEPT !.graph = inserted,
                                    !.live = drop_tmp(o.live, o.tmp), !.fault = TRUE,
                                    !.io = TRUE]
        ELSE IF outcome = "ok_stat_err"
        THEN [same EXCEPT !.stack = SetTop(frame), !.ret = RetErr, !.graph = inserted,
                          !.live = o.live, !.fault = TRUE, !.io = TRUE]
        ELSE IF Len(stack) >= MaxDepth
        THEN [same EXCEPT !.pc = "overflow", !.graph = inserted,
                          !.live = o.live]
        ELSE [same EXCEPT !.stack = Append(SetTop(frame), DirFrame(d, contents[d])),
                          !.graph = inserted, !.live = o.live]

\* extract_or_process_file, one extraction arm up to its call of
\* calculate_fvc_of on the extracted directory: Archive::new, open_archive,
\* graph.insert for a digest that was not known.
FileOpenEffect(outcome) ==
    LET d == Top.entry.sha256
        b == Top.branch
        same == [stack |-> stack, ret |-> NoRet, pc |-> "run", graph |-> graph,
                 live |-> tmpLive, fault |-> envFault, io |-> ioError]
        return(r) == [same EXCEPT !.stack = Pop, !.ret = r]
        \* Archive::new comes before open_archive except in the last arm
        metaFirst == b \in {"known", "c100"}
        o == open_archive(tmpLive, Len(stack),
                          IF outcome \in {"ok_stat_err", "meta_err"} THEN "ok" ELSE outcome)
        inserted == IF b = "known" THEN graph ELSE insert(graph, d)
        frame == [Top EXCEPT !.pc = "recursing", !.tmp = o.tmp, !.archive = Archive_new(d)]
    IN  IF outcome = "meta_err" /\ metaFirst THEN [return(RetErr) EXCEPT !.fault = TRUE, !.io = TRUE]
        ELSE IF o.result = "Io"
        THEN [return(RetErr) EXCEPT !.live = o.live, !.fault = TRUE, !.io = TRUE]
        ELSE IF o.result = "Other"
        THEN IF b = "known"
             THEN [same EXCEPT !.pc = "panic", !.stack = Unwound.stack,
                               !.live = Unwound.live,
                               !.fault = envFault \/ d \in TravArch]
             ELSE [same EXCEPT !.stack = SetTop([Top EXCEPT !.pc = "asfile"]),
                               !.live = o.live,
                               !.fault = envFault \/ d \in TravArch]
        ELSE IF outcome = "meta_err"
        THEN [return(RetErr) EXCEPT !.graph = inserted,
                                    !.live = drop_tmp(o.live, o.tmp), !.fault = TRUE,
                                    !.io = TRUE]
        ELSE IF outcome = "ok_stat_err"
        THEN [same EXCEPT !.stack = SetTop(frame), !.ret = RetErr, !.graph = inserted,
                          !.live = o.live, !.fault = TRUE, !.io = TRUE]
        ELSE IF Len(stack) >= MaxDepth
        THEN [same EXCEPT !.pc = "overflow", !.graph = inserted,
                          !.live = o.live]
        ELSE [same EXCEPT !.stack = Append(SetTop(frame), DirFrame(d, contents[d])),
                          !.graph = inserted, !.live = o.live]

FileOpen ==
    /\ pc = "run" /\ stack # <<>> /\ ret = NoRet
    /\ Top.k = "file" /\ Top.pc = "open"
    /\ \E outcome \in OpenOutcomes(Top.entry.sha256) :
          /\ (outcome = "meta_err" /\ Top.branch = "other") => Top.entry.sha256 \in TravArch
          /\ LET e == FileOpenEffect(outcome) IN
             /\ stack' = e.stack /\ ret' = e.ret /\ pc' = e.pc /\ graph' = e.graph
             /\ tmpLive' = e.live /\ envFault' = e.fault /\ ioError' = e.io
    /\ UNCHANGED <<idx, collections, sha256s, sorted>>
    /\ TravRest

\* extract_or_process_file, after calculate_fvc_of on the extracted
\* directory returned: lift the collection into the archive and close the
\* temp directory, or pass the error on.
FileAfterRecursion ==
    /\ pc = "run" /\ stack # <<>> /\ ret # NoRet
    /\ Top.k = "file" /\ Top.pc = "recursing"
    /\ stack' = Pop
    /\ IF ret.tag = "Err"
       THEN /\ tmpLive' = drop_tmp(tmpLive, Top.tmp)
            /\ ret' = ret /\ envFault' = envFault /\ ioError' = ioError
       ELSE \E closeOk \in BOOLEAN :
            /\ tmpLive' = close_tmp(tmpLive, Top.tmp)
            /\ ret' = IF closeOk THEN RetOk(lift_collection(Top.archive, ret.val))
                      ELSE RetErr
            /\ envFault' = (envFault \/ ~closeOk) /\ ioError' = ioError
    /\ UNCHANGED <<pc, idx, collections, graph, sha256s, sorted>>
    /\ TravRest

\* extract_or_process_file, the end: the file is not, or could not be,
\* processed as an archive; File::new reads it again.
FileAsFile ==
    /\ pc = "run" /\ stack # <<>> /\ ret = NoRet
    /\ Top.k = "file" /\ Top.pc = "asfile"
    /\ stack' = Pop
    /\ \E readOk \in BOOLEAN :
          /\ ret' = IF readOk THEN RetOk(File_new(Top.entry.sha256)) ELSE RetErr
          /\ envFault' = (envFault \/ ~readOk)
          /\ ioError' = (ioError \/ ~readOk)
    /\ UNCHANGED <<pc, idx, collections, graph, tmpLive, sha256s, sorted>>
    /\ TravRest

NextTrav ==
    \/ CalcNextInput \/ CalcCollect \/ CalcHash
    \/ WalkStep \/ WalkCollect \/ WalkReturn
    \/ FileBegin \/ FileOpen \/ FileAfterRecursion \/ FileAsFile

\* ------------------------------------------------------------------------
\* The filesystems and inputs a traversal is run on
\* ------------------------------------------------------------------------
\* the files a filesystem may hold: a digest and the confidence
\* is_extractable gives the file's name.  The second archive digest only
\* occurs under the name of an archive, and only the first one under a name
\* of confidence 50.
Entries ==
    {e \in [sha256 : TravDigests, conf : Confidence] :
        /\ e.sha256 = 2 => e.conf = 100
        /\ e.conf = 50 => e.sha256 = 1}
EntryRank(e) == e.sha256 * 1000 + e.conf

\* directory listings of n files; a listing is kept in one canonical order,
\* the order of the walk is chosen by WalkStep
ListingsOf(n) ==
    {l \in [1..n -> Entries] :
        \A i \in 1..(n - 1) : EntryRank(l[i]) <= EntryRank(l[i + 1])}

\* the input paths with n entries: a directory of n files, or (n = 0) a
\* file or an irregular file
PathsOf(n) ==
    {[kind |-> "dir", listing |-> l] : l \in ListingsOf(n)}
        \cup (IF n = 0 THEN {[kind |-> "file", entry |-> e] : e \in Entries}
                          \cup {[kind |-> "other"]}
              ELSE {})

RECURSIVE SumOver(_, _)
SumOver(f, S) ==
    IF S = {} THEN 0
    ELSE LET x == CHOOSE y \in S : TRUE IN f[x] + SumOver(f, S \ {x})

\* the input sequences whose i-th path holds isz[i] files
RECURSIVE BuildInputs(_, _)
BuildInputs(S, isz) ==
    IF S = {} THEN {<<>>}
    ELSE LET x == CHOOSE y \in S : TRUE IN
         {MapPut(f, x, v) : f \in BuildInputs(S \ {x}, isz), v \in PathsOf(isz[x])}

\* the filesystems in which archive digest a holds csz[a] files
RECURSIVE BuildContents(_, _)
BuildContents(S, csz) ==
    IF S = {} THEN {<<>>}
    ELSE LET x == CHOOSE y \in S : TRUE IN
         {MapPut(f, x, v) : f \in BuildContents(S \ {x}, csz), v \in ListingsOf(csz[x])}

\* the archive digests a traversal of the inputs can come across
DigestsIn(l) == {l[i].sha256 : i \in 1..Len(l)}
InputDigests(ins) ==
    UNION {IF ins[i].kind = "file" THEN {ins[i].entry.sha256}
           ELSE IF ins[i].kind = "dir" THEN DigestsIn(ins[i].listing)
           ELSE {} : i \in 1..Len(ins)}
RECURSIVE Closure(_, _)
Closure(D, c) ==
    LET more == D \cup UNION {DigestsIn(c[a]) : a \in D \cap TravArch}
    IN  IF more = D THEN D ELSE Closure(more, c)

AllEntries(ins, c) ==
    UNION {IF ins[i].kind = "file" THEN {ins[i].entry}
           ELSE IF ins[i].kind = "dir"
           THEN {ins[i].listing[j] : j \in 1..Len(ins[i].listing)}
           ELSE {} : i \in 1..Len(ins)}
        \cup UNION {{c[a][j] : j \in 1..Len(c[a])} : a \in DOMAIN c}

\* One filesystem of each class of filesystems the traversal cannot tell
\* apart.  An archive that is not reached (or never extracted, under policy
\* None) is empty; archive digests are used in ascending order; under policy
\* None is_extractable is never called, and under policy All its result is
\* only compared with 100.
Canonical(pol, ins, c) ==
    LET reach == IF pol = "None" THEN {} ELSE Closure(InputDigests(ins), c)
        used == Closure(InputDigests(ins), c)
    IN  /\ \A a \in TravArch : a \notin reach => c[a] = <<>>
        /\ \A a \in TravArch \cap used : \A b \in TravArch : b < a => b \in used
        /\ pol = "None" => \A e \in AllEntries(ins, c) : e.conf = 0
        /\ pol = "All" => \A e \in AllEntries(ins, c) : e.conf # 50

DagIdle ==
    /\ dag = ArchiveGraph_new
    /\ lastOp = [op |-> "new", a |-> 0, b |-> 0, result |-> "", before |-> ArchiveGraph_new]
    /\ HasherIdle

\* the policy and the filesystem a call runs on
TravWorld ==
    /\ policy \in Policies
    /\ \E n \in 1..(MaxFiles + 1) :
       \E isz \in [1..n -> 0..MaxFiles], csz \in [TravArch -> 0..MaxFiles] :
          /\ (n - 1) + SumOver(isz, 1..n) + SumOver(csz, TravArch) <= MaxFiles
          /\ inputs \in BuildInputs(1..n, isz)
          /\ contents \in BuildContents(TravArch, csz)
          /\ Canonical(policy, inputs, contents)

InitTrav ==
    /\ DagIdle /\ ExtractIdle /\ TreeIdle
    /\ TravWorld
    /\ pc = "run" /\ idx = 1 /\ collections = <<>> /\ stack = <<>> /\ ret = NoRet
    /\ graph = ArchiveGraph_new /\ tmpLive = {}
    /\ sha256s = <<>> /\ sorted = FALSE /\ envFault = FALSE /\ ioError = FALSE /\ runs = <<>>

SpecTrav == InitTrav /\ [][NextTrav]_vars

\* the code a caller reads from the hasher after calculate_fvc (hex / sum)
FVC == sum([sha256s |-> sha256s, sorted |-> sorted]).code

\* the permutations of a sequence
Reorderings(q) ==
    {[i \in 1..Len(q) |-> q[p[i]]] : p \in Orders(1..Len(q))}

\* calculate_fvc is called once more, with a new hasher, on the same
\* filesystem and under the same policy, the input paths presented in any
\* order; the outcome of the first call is kept for comparison.
Rerun ==
    /\ pc = "ok" /\ ~envFault /\ runs = <<>>
    /\ runs' = <<[fed |-> sort(sha256s), code |-> FVC]>>
    /\ inputs' \in Reorderings(inputs)
    /\ pc' = "run" /\ idx' = 1 /\ collections' = <<>>
    /\ sha256s' = FVC2Hasher_new.sha256s /\ sorted' = FVC2Hasher_new.sorted
    /\ UNCHANGED <<dag, lastOp, policy, contents, stack, ret, graph, tmpLive, envFault, ioError,
                   hashers, hlog, hhist, cls, tree>>

NextTravTwice == NextTrav \/ Rerun

SpecTravTwice == InitTrav /\ [][NextTravTwice]_vars

\* calculate_fvc runs on: a call that can take a step takes one
SpecTravFair == InitTrav /\ [][NextTrav]_vars /\ WF_vars(NextTrav)

\* ------------------------------------------------------------------------
\* process/mod.rs : the traversal that feeds the hasher as it walks
\* ------------------------------------------------------------------------
\* read without line 33: the flag survives the push
read_keeps_sorted(h, sha256, readOk) ==
    IF readOk THEN [hasher |-> [sha256s |-> Append(h.sha256s, sha256), sorted |-> h.sorted],
                    result |-> "Ok"]
    ELSE [hasher |-> h, result |-> "Err"]

\* a read that clears the flag before it knows whether read_to_end
\* succeeded
read_clears_first(h, sha256, readOk) ==
    IF readOk THEN [hasher |-> [sha256s |-> Append(h.sha256s, sha256), sorted |-> FALSE],
                    result |-> "Ok"]
    ELSE [hasher |-> [h EXCEPT !.sorted = FALSE], result |-> "Err"]

\* FVC2Hasher::read of a file whose bytes have digest sha256; readOk:
\* whether read_to_end succeeds
read(h, sha256, readOk) ==
    IF readOk THEN [hasher |-> [sha256s |-> Append(h.sha256s, sha256), sorted |-> FALSE],
                    result |-> "Ok"]
    ELSE [hasher |-> h, result |-> "Err"]

\* io::Result<()> : Ok(())
RetUnit == [tag |-> "Ok"]

\* a call of calculate_fvc on files
ProcCalcFrame(files) ==
    [k |-> "calc", files |-> files, i |-> 1, walking |-> FALSE, todo |-> {}]

\* a call of extract_or_process_file, and of process_archive in it
ProcFileFrame(entry) == [k |-> "file", entry |-> entry, pc |-> "begin", tmp |-> 0]

ProcRest == UNCHANGED <<dag, lastOp, policy, contents, inputs, idx, collections, graph, runs,
                        hashers, hlog, hhist, cls, tree>>

\* process_file: File::open, which ends the process when it fails, then
\* hasher.read.  outcome is "open_err", "read_err" or "ok".
process_file(h, sha256, outcome) ==
    IF outcome = "open_err" THEN [hasher |-> h, result |-> "Exit"]
    ELSE read(h, sha256, outcome = "ok")

FileOutcomes == {"open_err", "read_err", "ok"}

\* calculate_fvc: the loop takes the next path; metadata() may fail
ProcCalcNext ==
    /\ pc = "run" /\ stack # <<>> /\ ret = NoRet
    /\ Top.k = "calc" /\ ~Top.walking /\ Top.i <= Len(Top.files)
    /\ \E statOk \in BOOLEAN :
          LET path == Top.files[Top.i] IN
          IF ~statOk
          THEN /\ stack' = Pop /\ ret' = RetErr /\ envFault' = TRUE /\ ioError' = TRUE
          ELSE /\ ret' = ret /\ envFault' = envFault /\ ioError' = ioError
               /\ stack' =
                    IF path.kind = "file"
                    THEN Append(stack, ProcFileFrame(path.entry))
                    ELSE IF path.kind = "dir"
                    THEN SetTop([Top EXCEPT !.walking = TRUE,
                                            !.todo = 1..Len(path.listing)])
                    ELSE SetTop([Top EXCEPT !.i = @ + 1])
    /\ UNCHANGED <<pc, tmpLive, sha256s, sorted>>
    /\ ProcRest

\* calculate_fvc: the WalkDir loop takes the next file of the directory
ProcWalkStep ==
    /\ pc = "run" /\ stack # <<>> /\ ret = NoRet
    /\ Top.k = "calc" /\ Top.walking /\ Top.todo # {}
    /\ \E j \in Top.todo, walkOk \in BOOLEAN :
          IF ~walkOk
          THEN /\ stack' = Pop /\ ret' = RetErr /\ envFault' = TRUE /\ ioError' = TRUE
          ELSE /\ stack' = Append(SetTop([Top EXCEPT !.todo = @ \ {j}]),
                                  ProcFileFrame(Top.files[Top.i].listing[j]))
               /\ ret' = ret /\ envFault' = envFault /\ ioError' = ioError
    /\ UNCHANGED <<pc, tmpLive, sha256s, sorted>>
    /\ ProcRest

\* calculate_fvc: the walk of a directory is over
ProcWalkDone ==
    /\ pc = "run" /\ stack # <<>> /\ ret = NoRet
    /\ Top.k = "calc" /\ Top.walking /\ Top.todo = {}
    /\ stack' = SetTop([Top EXCEPT !.walking = FALSE, !.i = @ + 1])
    /\ UNCHANGED <<pc, ret, tmpLive, sha256s, sorted, envFault, ioError>>
    /\ ProcRest

\* calculate_fvc: the result of extract_or_process_file
ProcCalcCollect ==
    /\ pc = "run" /\ stack # <<>> /\ ret # NoRet
    /\ Top.k = "calc"
    /\ IF ret.tag = "Err"
       THEN stack' = Pop /\ ret' = ret
       ELSE /\ ret' = NoRet
            /\ stack' = IF Top.walking THEN stack
                        ELSE SetTop([Top EXCEPT !.i = @ + 1])
    /\ UNCHANGED <<pc, tmpLive, sha256s, sorted, envFault, ioError>>
    /\ ProcRest

\* calculate_fvc: every path is processed
ProcCalcReturn ==
    /\ pc = "run" /\ stack # <<>> /\ ret = NoRet
    /\ Top.k = "calc" /\ ~Top.walking /\ Top.i > Len(Top.files)
    /\ stack' = Pop /\ ret' = RetUnit
    /\ UNCHANGED <<pc, tmpLive, sha256s, sorted, envFault, ioError>>
    /\ ProcRest

\* the outermost calculate_fvc has returned
ProcFinish ==
    /\ pc = "run" /\ stack = <<>> /\ ret # NoRet
    /\ pc' = IF ret.tag = "Ok" THEN "ok" ELSE "err"
    /\ ret' = NoRet
    /\ UNCHANGED <<stack, tmpLive, sha256s, sorted, envFault, ioError>>
    /\ ProcRest


\* what a call does with the result of process_file: it passes Ok or Err on;
\* std::process::exit ends the process where it stands, no frame returns
\* and no destructor runs.  live: the temp directories that exist while
\* process_file runs; held: the one the returning frame holds (0: none).
after_process_file(r, live, held) ==
    [stack |-> IF r.result = "Exit" THEN stack ELSE Pop,
     ret |-> IF r.result = "Exit" THEN NoRet
             ELSE IF r.result = "Ok" THEN RetUnit ELSE RetErr,
     pc |-> IF r.result = "Exit" THEN "exit" ELSE "run",
     live |-> IF r.result = "Exit" THEN live ELSE live \ {held},
     hasher |-> r.hasher]

\* the calls of process_archive on the stack that are extracting digest d
Nesting(d) ==
    Cardinality({i \in 1..Len(stack) :
                    stack[i].k = "file" /\ stack[i].pc = "recursing"
                        /\ stack[i].entry.sha256 = d})

\* extract_or_process_file: the match on the policy and is_extractable
ProcExtractOrProcessFile ==
    /\ pc = "run" /\ stack # <<>> /\ ret = NoRet
    /\ Top.k = "file" /\ Top.pc = "begin"
    /\ IF policy = "None" \/ (policy = "Extension" /\ is_extractable(Top.entry) = 0)
       THEN \E fo \in FileOutcomes :
               LET r == process_file([sha256s |-> sha256s, sorted |-> sorted],
                                     Top.entry.sha256, fo)
                   e == after_process_file(r, tmpLive, 0)
               IN  /\ stack' = e.stack /\ ret' = e.ret /\ pc' = e.pc
                   /\ tmpLive' = e.live
                   /\ sha256s' = e.hasher.sha256s /\ sorted' = e.hasher.sorted
                   /\ envFault' = (envFault \/ fo # "ok")
                   /\ ioError' = (ioError \/ fo # "ok")
       ELSE /\ stack' = SetTop([Top EXCEPT !.pc = "open"])
            /\ UNCHANGED <<pc, ret, tmpLive, sha256s, sorted, envFault, ioError>>
    /\ ProcRest

\* process_archive: TempDir::new and extract_archive; when the extraction
\* fails, whatever the error, the file goes to process_file.  outcome is
\* "tmp_err", "ok", or the error of the extractor: "io" (an I/O error) or
\* "format".
ProcArchiveOpen ==
    /\ pc = "run" /\ stack # <<>> /\ ret = NoRet
    /\ Top.k = "file" /\ Top.pc = "open"
    /\ LET d == Top.entry.sha256
           id == Len(stack)
       IN
       \E outcome \in {"tmp_err", "io", "format"}
                        \cup (IF d \in TravArch THEN {"ok"} ELSE {}) :
          IF outcome = "tmp_err"
          THEN /\ stack' = Pop /\ ret' = RetErr /\ envFault' = TRUE /\ ioError' = TRUE
               /\ UNCHANGED <<pc, tmpLive, sha256s, sorted>>
          ELSE IF outcome = "ok"
          THEN /\ tmpLive' = tmpLive \cup {id}
               /\ IF Nesting(d) >= MaxNesting
                  THEN pc' = "overflow" /\ stack' = stack
                  ELSE /\ pc' = pc
                       /\ stack' = Append(SetTop([Top EXCEPT !.pc = "recursing", !.tmp = id]),
                                         ProcCalcFrame(<<[kind |-> "dir",
                                                          listing |-> contents[d]]>>))
               /\ UNCHANGED <<ret, sha256s, sorted, envFault, ioError>>
          ELSE \E fo \in FileOutcomes :
               LET r == process_file([sha256s |-> sha256s, sorted |-> sorted], d, fo)
                   e == after_process_file(r, tmpLive \cup {id}, id)
               IN  /\ stack' = e.stack /\ ret' = e.ret /\ pc' = e.pc
                   /\ tmpLive' = e.live
                   /\ sha256s' = e.hasher.sha256s /\ sorted' = e.hasher.sorted
                   /\ envFault' = (envFault \/ fo # "ok" \/ d \in TravArch
                                        \/ outcome = "io")
                   /\ ioError' = (ioError \/ fo # "ok" \/ outcome = "io")
    /\ ProcRest

\* process_archive, after calculate_fvc on the extracted directory: an
\* error is passed on and the TempDir dropped; otherwise tmp.close(), whose
\* failure panics (expect)
ProcArchiveAfter ==
    /\ pc = "run" /\ stack # <<>> /\ ret # NoRet
    /\ Top.k = "file" /\ Top.pc = "recursing"
    /\ IF ret.tag = "Err"
       THEN /\ stack' = Pop /\ ret' = ret /\ pc' = pc
            /\ tmpLive' = drop_tmp(tmpLive, Top.tmp)
            /\ envFault' = envFault /\ ioError' = ioError
       ELSE \E closeOk \in BOOLEAN :
            IF closeOk
            THEN /\ stack' = Pop /\ ret' = RetUnit /\ pc' = pc
                 /\ tmpLive' = close_tmp(tmpLive, Top.tmp)
                 /\ envFault' = envFault /\ ioError' = ioError
            ELSE /\ stack' = Unwound.stack /\ ret' = NoRet /\ pc' = "panic"
                 /\ tmpLive' = Unwound.live
                 /\ envFault' = TRUE /\ ioError' = ioError
    /\ UNCHANGED <<sha256s, sorted>>
    /\ ProcRest

NextProc ==
    \/ ProcCalcNext \/ ProcWalkStep \/ ProcWalkDone \/ ProcCalcCollect
    \/ ProcCalcReturn \/ ProcFinish
    \/ ProcExtractOrProcessFile \/ ProcArchiveOpen \/ ProcArchiveAfter

InitProc ==
    /\ DagIdle /\ ExtractIdle /\ TreeIdle
    /\ TravWorld
    /\ pc = "run" /\ idx = 0 /\ collections = <<>> /\ ret = NoRet
    /\ stack = <<ProcCalcFrame(inputs)>>
    /\ graph = ArchiveGraph_new /\ tmpLive = {}
    /\ sha256s = <<>> /\ sorted = FALSE /\ envFault = FALSE /\ ioError = FALSE /\ runs = <<>>

SpecProc == InitProc /\ [][NextProc]_vars

\* ------------------------------------------------------------------------
\* Properties of the graph (SpecDag)
\* ------------------------------------------------------------------------
\* transitive closure of a finite relation
RECURSIVE TransitiveClosure(_)
TransitiveClosure(R) ==
    LET step == R \cup {<<pq[1][1], pq[2][2]>> :
                          pq \in {x \in R \X R : x[1][2] = x[2][1]}}
    IN  IF step = R THEN R ELSE TransitiveClosure(step)

\* to reaches from through one or more edges of g
Reaches(g, x, y) == <<x, y>> \in TransitiveClosure(EdgesOf(g))

\* C5: after any sequence of insert and add_edge on a graph that starts
\* empty, no digest reaches itself through one or more edges (no cycle and
\* no self loop).
C5_Acyclic == \A d \in DagDigests : ~Reaches(dag, d, d)

\* an edge that would close a cycle of length two or more was refused
C5_Witness ==
    /\ lastOp.op = "add_edge"
    /\ lastOp.result = "CycleDetected"
    /\ lastOp.a # lastOp.b
    /\ Reaches(dag, lastOp.b, lastOp.a)

\* C6: add_edge(from, to) returns Cycle exactly when to already reaches
\* from over the current edge set (transitively, or to = from), also when
\* from is not registered; otherwise MissingSource when from is not
\* registered; otherwise it appends to to from's out-edges and returns Ok.
C6_AddEdgeResult ==
    lastOp.op = "add_edge" =>
        LET from == lastOp.a
            to == lastOp.b
            g == lastOp.before
        IN  IF to = from \/ Reaches(g, to, from)
            THEN lastOp.result = "CycleDetected"
            ELSE IF from \notin DOMAIN g
            THEN lastOp.result = "KeyMissing"
            ELSE /\ lastOp.result = "Ok"
                 /\ dag = [g EXCEPT ![from].sub_archives = Append(@, to)]

\* C7: when add_edge returns Cycle or MissingSource the registered digests
\* and every node's out-edges are the same as before the call.
C7_FailedAddEdgeLeavesGraph ==
    (lastOp.op = "add_edge" /\ lastOp.result \in {"CycleDetected", "KeyMissing"})
        => dag = lastOp.before

\* a refused edge on a graph that already holds edges
C7_Witness ==
    /\ lastOp.op = "add_edge"
    /\ lastOp.result = "CycleDetected"
    /\ lastOp.a \in DOMAIN lastOp.before
    /\ EdgesOf(lastOp.before) # {}

\* C8: insert(d) of a registered digest leaves the graph unchanged, out-edges
\* of d included; a freshly registered digest has an empty out-edge set.
C8_InsertIdempotent ==
    lastOp.op = "insert" =>
        IF lastOp.a \in DOMAIN lastOp.before
        THEN dag = lastOp.before
        ELSE /\ DOMAIN dag = DOMAIN lastOp.before \cup {lastOp.a}
             /\ dag[lastOp.a].sub_archives = <<>>
             /\ \A d \in DOMAIN lastOp.before : dag[d] = lastOp.before[d]

\* ------------------------------------------------------------------------
\* Properties of the traversal
\* ------------------------------------------------------------------------
\* C1: for a fixed policy and filesystem, every visiting order (of the
\* directory walk, of the extractions, of the input paths) feeds the same
\* multiset of digests to the hasher and yields the same FVC: two calls of
\* calculate_fvc that both succeed without a fault of the environment
\* agree.
C1_OrderIndependent ==
    (pc = "ok" /\ runs # <<>> /\ ~envFault) =>
        /\ sort(sha256s) = runs[1].fed
        /\ FVC = runs[1].code

\* the archive digests b found (as a member, at any depth) in archive a
ContainsRel ==
    UNION {{<<a, contents[a][i].sha256>> : i \in 1..Len(contents[a])} :
               a \in DOMAIN contents}

\* C2: calculate_fvc terminates on every filesystem, also when an archive
\* contains a copy of itself directly or through other archives: the
\* recursion extract_or_process_file -> calculate_fvc_of comes to an end
\* (a return, or a panic), it neither recurses until the stack is exhausted
\* nor searches the graph for ever.
C2_Terminates == <>(pc \in {"ok", "err", "panic"})

\* a run came to its end after it extracted an archive that contains itself
C2_Witness ==
    /\ pc = "ok" /\ ~envFault
    /\ \E a \in DOMAIN graph : <<a, a>> \in TransitiveClosure(ContainsRel)

\* how often digest d occurs in a sequence of digests
Count(q, d) == Cardinality({i \in 1..Len(q) : q[i] = d})

\* the digests of the plain files among the members of a listing
LeafMembers(l) ==
    LET RECURSIVE Pick(_)
        Pick(i) == IF i > Len(l) THEN <<>>
                   ELSE (IF l[i].sha256 \in TravLeaf THEN <<l[i].sha256>> ELSE <<>>)
                            \o Pick(i + 1)
    IN  Pick(1)

\* extraction is attempted on an unregistered file of this name
Attempted(e) == policy = "All" \/ (policy = "Extension" /\ e.conf > 0)

\* the one input is a file q whose extraction yields a copy of q, next to
\* plain files only
QuineInput ==
    /\ Len(inputs) = 1 /\ inputs[1].kind = "file"
    /\ inputs[1].entry.sha256 \in TravArch
    /\ Attempted(inputs[1].entry)
    /\ LET q == inputs[1].entry.sha256 IN
       /\ q \in DigestsIn(contents[q])
       /\ DigestsIn(contents[q]) \subseteq {q} \cup TravLeaf

\* C3, as stated: on a quine q.zip calculate terminates and the digests
\* fed include the digest of q.zip exactly once, together with the digest
\* of every sibling file extracted next to it.
C3_QuineDigestOnce ==
    (QuineInput /\ pc = "ok" /\ ~envFault) =>
        LET q == inputs[1].entry.sha256 IN
        /\ Count(sha256s, q) = 1
        /\ \A d \in TravLeaf : Count(sha256s, d) = Count(LeafMembers(contents[q]), d)

\* C3, amended: on a quine q.zip calculate terminates and the digest of
\* q.zip is not fed at all (the outer q.zip is extracted, the copy inside is
\* skipped); the digest of every sibling file extracted next to it is fed
\* once.
C3_QuineDigestSkipped ==
    (QuineInput /\ pc = "ok" /\ ~envFault) =>
        LET q == inputs[1].entry.sha256 IN
        /\ Count(sha256s, q) = 0
        /\ \A d \in TravLeaf : Count(sha256s, d) = Count(LeafMembers(contents[q]), d)

\* a quine with a sibling file was processed to the end
C3_Witness ==
    /\ QuineInput /\ pc = "ok" /\ ~envFault
    /\ LeafMembers(contents[inputs[1].entry.sha256]) # <<>>
    /\ sha256s # <<>>

\* the digests of the plain files under a listing, through every archive
RECURSIVE LeavesOf(_)
LeavesOf(l) ==
    FlattenSeq([i \in 1..Len(l) |->
                   IF l[i].sha256 \in TravLeaf THEN <<l[i].sha256>>
                   ELSE LeavesOf(contents[l[i].sha256])])

\* the digests of the plain files under the input paths
InputLeaves ==
    FlattenSeq([i \in 1..Len(inputs) |->
                   IF inputs[i].kind = "file" THEN LeavesOf(<<inputs[i].entry>>)
                   ELSE IF inputs[i].kind = "dir" THEN LeavesOf(inputs[i].listing)
                   ELSE <<>>])

\* no archive contains itself, and every archive is extracted wherever it
\* is met
PlainPackaging ==
    /\ policy # "None"
    /\ \A a \in TravArch : <<a, a>> \notin TransitiveClosure(ContainsRel)
    /\ \A e \in AllEntries(inputs, contents) : e.sha256 \in TravArch => Attempted(e)

\* C4: leaf files given directly, in a directory, or packed in an archive
\* (policy Extension or All, extraction succeeding), also nested in further
\* archives or directories, feed the same multiset of digests and yield
\* the same FVC: what is fed is the multiset of the leaf files, whatever the
\* packaging.
C4_ContainmentEquivalence ==
    (PlainPackaging /\ pc = "ok" /\ ~envFault) =>
        /\ sort(sha256s) = sort(InputLeaves)
        /\ FVC = sum(read_sha256s(FVC2Hasher_new, InputLeaves)).code

\* leaf files packed in an archive inside an archive were processed
C4_Witness ==
    /\ PlainPackaging /\ pc = "ok" /\ ~envFault
    /\ Len(inputs) = 1 /\ inputs[1].kind = "file"
    /\ \E a \in TravArch, b \in TravArch :
          /\ inputs[1].entry.sha256 = a
          /\ b \in DigestsIn(contents[a])
          /\ DigestsIn(contents[b]) \cap TravLeaf # {}
    /\ sha256s # <<>>

\* a step of extract_or_process_file in which the extractor reports a
\* format (non-I/O) error
FormatErrorStep ==
    /\ pc = "run" /\ stack # <<>> /\ ret = NoRet
    /\ Top.k = "file" /\ Top.pc = "open"
    /\ LET e == FileOpenEffect("format") IN
       /\ stack' = e.stack /\ ret' = e.ret /\ pc' = e.pc /\ graph' = e.graph
       /\ tmpLive' = e.live /\ envFault' = e.fault

\* C10: whenever the extractor reports a format error for a file on which
\* extraction is attempted (policy Extension or All, the digest registered
\* in the graph or not), the temp directory is released, the run is not
\* aborted, and the call goes on to return the file as Collection::File
\* with its own digest.
C10_FormatErrorFallsBack ==
    [][FormatErrorStep =>
          /\ tmpLive' = tmpLive
          /\ pc' = "run"
          /\ Len(stack') = Len(stack)
          /\ stack'[Len(stack')].pc = "asfile"
          /\ stack'[Len(stack')].entry = Top.entry]_vars

\* C9: when a calculate invocation is over, whether it succeeded or failed
\* (extraction I/O error, extraction format error, error during the
\* recursion into the extracted contents, error closing), no temp directory
\* it created remains: every frame released the temp directory it acquired
\* on the path it was left by.
C9_TempDirsReleased ==
    pc \in {"ok", "err", "panic", "exit"} => tmpLive = {}

\* what a run may still do once an I/O error was reported: return from the
\* calls under way, dropping their temp directories
OnlyUnwinds ==
    /\ sha256s' = sha256s /\ collections' = collections /\ idx' = idx
    /\ graph' = graph
    /\ Len(stack') <= Len(stack)
    /\ tmpLive' \subseteq tmpLive

\* C11: once stat, open, read, TempDir::new or the extractor has reported an
\* I/O error, no further file or input path is processed (no digest is fed,
\* no archive opened, no call made), and the invocation ends by returning
\* Err: it neither returns Ok nor ends the process itself.
C11_IoErrorIsFatal ==
    /\ [](ioError => pc \notin {"ok", "exit"})
    /\ [][ioError => OnlyUnwinds]_vars

\* C12: under policy Extension a file whose path is_extractable rates 0 is
\* never handed to the extractor (its call never reaches open_archive),
\* and its call returns Collection::File with the digest of its bytes (or
\* the I/O error of reading it), whatever was processed before it.
C12_NotExtractableIsFile ==
    /\ [](policy = "Extension" =>
            \A i \in 1..Len(stack) :
               (stack[i].k = "file" /\ is_extractable(stack[i].entry) = 0)
                   => stack[i].pc \in {"begin", "asfile"})
    /\ [][(/\ policy = "Extension" /\ pc = "run" /\ stack # <<>>
           /\ Top.k = "file" /\ is_extractable(Top.entry) = 0
           /\ pc' = "run" /\ Len(stack') < Len(stack))
             => ret' \in {RetErr, RetOk(File_new(Top.entry.sha256))}]_vars

\* the digests of the regular files among the input paths and in the input
\* directories
InputFiles ==
    FlattenSeq([i \in 1..Len(inputs) |->
                   IF inputs[i].kind = "file" THEN <<inputs[i].entry.sha256>>
                   ELSE IF inputs[i].kind = "dir"
                   THEN [j \in 1..Len(inputs[i].listing) |-> inputs[i].listing[j].sha256]
                   ELSE <<>>])

\* C13: under policy None no call of extract_or_process_file goes beyond
\* its first match: no archive is opened, no temp directory exists, the
\* graph stays as it was made, every call returns Collection::File with the
\* digest of the file's bytes (or the error of reading it), and a run that
\* ends Ok has fed the digest of each regular file, archives included.
C13_PolicyNoneHashesBytes ==
    /\ [](policy = "None" =>
            /\ graph = ArchiveGraph_new
            /\ tmpLive = {}
            /\ \A i \in 1..Len(stack) : stack[i].k = "file" => stack[i].pc = "begin"
            /\ pc \in {"run", "ok", "err"}
            /\ pc = "ok" => sort(sha256s) = sort(InputFiles))
    /\ [][(/\ policy = "None" /\ pc = "run" /\ stack # <<>> /\ Top.k = "file"
           /\ Len(stack') < Len(stack))
             => ret' \in {RetErr, RetOk(File_new(Top.entry.sha256))}]_vars

\* a run under policy None ended Ok on a directory that holds an archive
C13_Witness ==
    /\ policy = "None" /\ pc = "ok"
    /\ \E i \in 1..Len(inputs) :
          /\ inputs[i].kind = "dir"
          /\ DigestsIn(inputs[i].listing) \cap TravArch # {}
    /\ \E k \in 1..Len(sha256s) : sha256s[k] \in TravArch

\* a call of extract_or_process_file is at its start, on a file whose
\* digest is not registered and on which the policy has extraction attempted
UnknownAttemptBegins ==
    /\ pc = "run" /\ stack # <<>> /\ ret = NoRet
    /\ Top.k = "file" /\ Top.pc = "begin"
    /\ ~contains(graph, Top.entry.sha256)
    /\ Attempted(Top.entry)

\* such a call is about to open the file as an archive
UnknownAttemptOpens ==
    /\ pc = "run" /\ stack # <<>> /\ ret = NoRet
    /\ Top.k = "file" /\ Top.pc = "open"
    /\ Top.branch \in {"c100", "other"}

\* C14: a file whose digest is not registered is handed to the extractor
\* under policy All whatever its name, and under policy Extension when its
\* name is rated 50 or 100; what follows does not depend on the rating: an
\* I/O error is returned, a format error leaves graph and temp directories
\* as they were and the file is taken as a leaf, a success registers the
\* digest and recurses into the extracted directory with current = digest.
C14_MaybeHandledLikeYes ==
    /\ [][UnknownAttemptBegins =>
             \/ ret' = RetErr
             \/ /\ Len(stack') = Len(stack)
                /\ stack'[Len(stack')].pc = "open"
                /\ graph' = graph /\ tmpLive' = tmpLive]_vars
    /\ [][UnknownAttemptOpens =>
             LET d == Top.entry.sha256 IN
             \/ ret' = RetErr
             \/ /\ stack' = SetTop([Top EXCEPT !.pc = "asfile"])
                /\ pc' = "run" /\ ret' = NoRet
                /\ graph' = graph /\ tmpLive' = tmpLive
             \/ /\ graph' = insert(graph, d)
                /\ tmpLive' = tmpLive \cup {Len(stack)}
                /\ ret' = NoRet
                /\ \/ pc' = "overflow"
                   \/ /\ pc' = "run"
                      /\ Len(stack') = Len(stack) + 1
                      /\ stack'[Len(stack')] = DirFrame(d, contents[d])]_vars

\* under policy Extension a file rated 50 was extracted and its digest
\* registered
C14_Witness ==
    /\ policy = "Extension" /\ pc = "run"
    /\ \E i \in 1..Len(stack) :
          /\ stack[i].k = "file" /\ stack[i].pc = "recursing"
          /\ stack[i].entry.conf = 50 /\ stack[i].branch = "other"
          /\ contains(graph, stack[i].entry.sha256)
          /\ stack[i].tmp \in tmpLive

\* C15, as stated: the digest of a file that was not registered is inserted
\* before the extractor is invoked on it: once the extractor has run on the
\* file, whether it extracted it or refused it, the digest is registered;
\* the recursion into the extracted directory runs with current = digest.
C15_InsertBeforeExtract ==
    \A i \in 1..Len(stack) :
       (stack[i].k = "file" /\ stack[i].branch \in {"c100", "other"}) =>
          /\ stack[i].pc \in {"asfile", "recursing"}
                => contains(graph, stack[i].entry.sha256)
          /\ (stack[i].pc = "recursing" /\ i < Len(stack))
                => /\ stack[i + 1].k = "dir"
                   /\ stack[i + 1].current = stack[i].entry.sha256

\* C15, as the code has it: the extractor is invoked first; the digest is
\* inserted when the extraction has succeeded, before the recursion, which
\* runs with current = digest; a file the extractor refused is not
\* registered.
C15_InsertAfterExtract ==
    \A i \in 1..Len(stack) :
       (stack[i].k = "file" /\ stack[i].branch \in {"c100", "other"}) =>
          /\ stack[i].pc = "asfile" => ~contains(graph, stack[i].entry.sha256)
          /\ stack[i].pc = "recursing" => contains(graph, stack[i].entry.sha256)
          /\ (stack[i].pc = "recursing" /\ i < Len(stack))
                => /\ stack[i + 1].k = "dir"
                   /\ stack[i + 1].current = stack[i].entry.sha256

\* the extractor refused one file and extracted another, in which the
\* recursion is under way
C15_Witness ==
    /\ pc = "run" /\ stack # <<>>
    /\ \E i \in 1..Len(stack) :
          /\ stack[i].k = "file" /\ stack[i].pc = "recursing"
          /\ stack[i].branch \in {"c100", "other"}
          /\ i < Len(stack)
    /\ Top.k = "file" /\ Top.pc = "asfile" /\ Top.branch \in {"c100", "other"}
    /\ ~envFault

\* a call of extract_or_process_file is at its start inside an archive
\* (current is Some), on a file whose digest is registered, and the file can
\* be read
KnownInsideArchive ==
    /\ pc = "run" /\ stack # <<>> /\ ret = NoRet
    /\ Top.k = "file" /\ Top.pc = "begin"
    /\ policy # "None"
    /\ Top.current # 0
    /\ contains(graph, Top.entry.sha256)
    /\ ret' # RetErr

\* C16: a file met inside an archive whose digest d is registered is first
\* tried as an edge current -> d.  If d reaches current (or is current) the
\* file is skipped: the call returns Ok(Empty), graph and temp directories
\* are left as they are, nothing is raised; the directory walk that met the
\* file takes the Empty, keeps what it has gathered and what it has still
\* to visit, and goes on.  Otherwise the edge is added and the call goes on
\* to open the file as an archive.
C16_CycleSkipsFile ==
    /\ [][KnownInsideArchive =>
             LET d == Top.entry.sha256
                 cur == Top.current
             IN  IF d = cur \/ Reaches(graph, d, cur)
                 THEN /\ stack' = Pop /\ ret' = RetOk(Empty) /\ pc' = "run"
                      /\ graph' = graph /\ tmpLive' = tmpLive
                      /\ envFault' = envFault
                 ELSE /\ pc' = "run" /\ ret' = NoRet
                      /\ stack' = SetTop([Top EXCEPT !.pc = "open", !.branch = "known"])
                      /\ graph' = [graph EXCEPT ![cur].sub_archives = Append(@, d)]
                      /\ tmpLive' = tmpLive]_vars
    /\ [][(/\ pc = "run" /\ stack # <<>> /\ Top.k = "dir" /\ ret = RetOk(Empty))
             => /\ stack' = stack /\ ret' = NoRet /\ pc' = "run"
                /\ tmpLive' = tmpLive /\ graph' = graph]_vars

\* a copy of an enclosing archive was skipped and the walk that met it has
\* entries left to visit
C16_Witness ==
    /\ pc = "run" /\ stack # <<>> /\ ret = RetOk(Empty)
    /\ Top.k = "dir" /\ Top.current # 0 /\ Top.todo # {}
    /\ Top.listing[Top.at].sha256 \in DOMAIN graph
    /\ ~envFault

\* how many file records with digest d a collection holds, at any depth
RECURSIVE DigestCount(_, _)
DigestCount(c, d) ==
    IF c.tag = "Empty" THEN 0
    ELSE IF c.tag = "File" THEN (IF c.sha256 = d THEN 1 ELSE 0)
    ELSE Cardinality({k \in DOMAIN c.files : c.files[k].sha256 = d})
            + SumOver([k \in DOMAIN c.archives |-> DigestCount(c.archives[k], d)],
                      DOMAIN c.archives)

\* C17: whatever order hash_collection takes, a collection feeds the digest
\* of each file record it holds, at any depth, once per record, and nothing
\* else: an archive that was extracted feeds the files found in it and not
\* its own digest.  A file that was not, or could not be, extracted is
\* returned as a file record with its own digest and so feeds that digest
\* once.
C17_ArchiveFeedsLeavesOnly ==
    /\ [](\A i \in 1..Len(collections) :
             \A q \in hash_collection(collections[i]) :
                \A d \in TravDigests : Count(q, d) = DigestCount(collections[i], d))
    /\ [](pc = "ok" =>
             \A d \in TravDigests :
                Count(sha256s, d) =
                   SumOver([i \in 1..Len(collections) |-> DigestCount(collections[i], d)],
                           1..Len(collections)))
    /\ [][(/\ pc = "run" /\ stack # <<>> /\ Top.k = "file" /\ Top.pc = "asfile")
             => /\ ret' \in {RetErr, RetOk(File_new(Top.entry.sha256))}
                /\ hash_collection(File_new(Top.entry.sha256)) = {<<Top.entry.sha256>>}]_vars

\* a run ended Ok with an archive that was extracted and holds a file, and
\* with a file the extractor was tried on and refused
C17_Witness ==
    /\ pc = "ok" /\ ~envFault
    /\ \E i \in 1..Len(collections) :
          /\ collections[i].tag = "Archive"
          /\ DOMAIN collections[i].files # {}
          /\ collections[i].sha256 \notin {sha256s[k] : k \in 1..Len(sha256s)}
    /\ \E i \in 1..Len(collections) :
          /\ inputs[i].kind = "file" /\ Attempted(inputs[i].entry)
          /\ collections[i] = File_new(inputs[i].entry.sha256)
          /\ Count(sha256s, inputs[i].entry.sha256) = 1

\* C18: the temp directory a call extracted its archive into exists as
\* long as the call waits for the recursion into it, so every file the
\* recursion reads lies in a directory that exists; a temp directory is
\* removed only by the call that holds it, when the recursion has handed
\* its result back to it (or by the unwinding of a panic).
C18_TempDirOutlivesRecursion ==
    /\ [](\A i \in 1..Len(stack) :
             (stack[i].k = "file" /\ stack[i].pc = "recursing")
                 => stack[i].tmp \in tmpLive)
    /\ [][\A t \in tmpLive \ tmpLive' :
             \/ pc' = "panic"
             \/ /\ stack # <<>> /\ Top.k = "file" /\ Top.pc = "recursing"
                /\ Top.tmp = t /\ ret # NoRet
                /\ stack' = Pop]_vars

\* a file is about to be read in the temp directory of an archive that was
\* found in the temp directory of another archive
C18_Witness ==
    /\ pc = "run" /\ ret = NoRet /\ Len(stack) >= 5
    /\ Top.k = "file" /\ Top.pc = "begin"
    /\ \E i, j \in 1..Len(stack) :
          /\ i < j
          /\ stack[i].k = "file" /\ stack[i].pc = "recursing"
          /\ stack[j].k = "file" /\ stack[j].pc = "recursing"
          /\ stack[i].tmp # stack[j].tmp
          /\ {stack[i].tmp, stack[j].tmp} \subseteq tmpLive

\* ------------------------------------------------------------------------
\* SpecHasher : two FVC2Hashers exercised through new / read / read_sha256 /
\* sum
\* ------------------------------------------------------------------------
HasherRest == UNCHANGED <<dagVars, travVars, cls, tree>>

InitHasher ==
    /\ DagIdle /\ ExtractIdle /\ TreeIdle
    /\ policy = "None" /\ contents = <<>> /\ inputs = <<>>
    /\ pc = "idle" /\ idx = 0 /\ collections = <<>> /\ stack = <<>> /\ ret = NoRet
    /\ graph = ArchiveGraph_new /\ tmpLive = {}
    /\ sha256s = <<>> /\ sorted = FALSE /\ envFault = FALSE /\ ioError = FALSE /\ runs = <<>>

\* let mut hasher = FVC2Hasher::new(), for the i-th hasher
NewOf(i) ==
    /\ hashers' = [hashers EXCEPT ![i] = FVC2Hasher_new]
    /\ hlog' = [hlog EXCEPT ![i] = FreshLog]

\* hasher.read_sha256(d)
Read_sha256Of(i, d) ==
    /\ Len(hlog[i].ingested) < MaxIngest
    /\ hashers' = [hashers EXCEPT ![i] = read_sha256(hashers[i], d)]
    /\ hlog' = [hlog EXCEPT ![i] = [ingested |-> Append(hlog[i].ingested, d),
                                    code |-> NoCode, result |-> "none"]]

\* hasher.read(reader), the bytes of the reader having digest d
ReadOf(i, d, readOk) ==
    LET r == read(hashers[i], d, readOk)
    IN  /\ Len(hlog[i].ingested) < MaxIngest
        /\ hashers' = [hashers EXCEPT ![i] = r.hasher]
        /\ hlog' = [hlog EXCEPT ![i] =
                       IF r.result = "Ok"
                       THEN [ingested |-> Append(hlog[i].ingested, d),
                             code |-> NoCode, result |-> "Ok"]
                       ELSE [hlog[i] EXCEPT !.result = "Err"]]

\* hasher.sum()
SumOf(i) ==
    LET r == sum(hashers[i])
    IN  /\ hashers' = [hashers EXCEPT ![i] = r.hasher]
        /\ hlog' = [hlog EXCEPT ![i].code = r.code, ![i].result = "none"]

\* hasher.hex()
HexOf(i) ==
    LET r == hex(hashers[i])
    IN  /\ hashers' = [hashers EXCEPT ![i] = r.hasher]
        /\ hlog' = [hlog EXCEPT ![i].code = r.code, ![i].result = "none"]

HNew ==
    \E i \in 1..2 :
        /\ hlog[i] # FreshLog
        /\ NewOf(i)
        /\ HasherRest /\ UNCHANGED hhist

HRead_sha256 ==
    \E i \in 1..2, d \in HashDigests :
        Read_sha256Of(i, d) /\ HasherRest /\ UNCHANGED hhist

HRead ==
    \E i \in 1..2, d \in HashDigests, readOk \in BOOLEAN :
        ReadOf(i, d, readOk) /\ HasherRest /\ UNCHANGED hhist

HSum ==
    \E i \in 1..2 :
        SumOf(i) /\ HasherRest /\ UNCHANGED hhist

NextHasher == HNew \/ HRead_sha256 \/ HRead \/ HSum

SpecHasher == InitHasher /\ [][NextHasher]_vars

\* the ascending arrangements of a sequence of digests
Ascending(ds) ==
    {q \in [1..Len(ds) -> HashDigests] :
        /\ \A d \in HashDigests : Count(q, d) = Count(ds, d)
        /\ \A j \in 1..(Len(ds) - 1) : q[j] <= q[j + 1]}

SameMultiset(a, b) == \A d \in HashDigests : Count(a, d) = Count(b, d)

\* C19: two hashers that have ingested the same multiset of digests, in
\* whatever orders and through read or read_sha256, return the same code
\* from sum
C19_SumOrderIndependent ==
    (/\ hlog[1].code # NoCode /\ hlog[2].code # NoCode
     /\ SameMultiset(hlog[1].ingested, hlog[2].ingested))
        => hlog[1].code = hlog[2].code

\* both have summed the same three digests, ingested in different orders
C19_Witness ==
    /\ hlog[1].code # NoCode /\ hlog[2].code # NoCode
    /\ Len(hlog[1].ingested) = MaxIngest
    /\ SameMultiset(hlog[1].ingested, hlog[2].ingested)
    /\ hlog[1].ingested # hlog[2].ingested
    /\ hlog[1].code = hlog[2].code

\* C20: the code sum returns is 'F','V','C','2',0 followed by the SHA-256
\* of the ingested digests fed in ascending order, with nothing between
\* them; of nothing at all when no digest was ingested
C20_SumFormat ==
    \A i \in 1..2 :
        hlog[i].code # NoCode =>
            /\ hlog[i].code.version = <<70, 86, 67, 50, 0>>
            /\ \E q \in Ascending(hlog[i].ingested) : hlog[i].code.hash = Sha256(q)
            /\ hlog[i].ingested = <<>> => hlog[i].code.hash = Sha256(<<>>)

\* a hasher has summed digests it ingested out of order, another has
\* summed nothing
C20_Witness ==
    /\ hlog[1].code # NoCode
    /\ Len(hlog[1].ingested) = MaxIngest
    /\ hlog[1].ingested \notin Ascending(hlog[1].ingested)
    /\ hlog[2].ingested = <<>> /\ hlog[2].code # NoCode

\* ------------------------------------------------------------------------
\* SpecHasherOne : one FVC2Hasher exercised through new / read /
\* read_sha256 / sum / hex, with what each call returned
\* ------------------------------------------------------------------------
\* the code in hand when an ingest makes it stale
StaleAt == IF hlog[1].code # NoCode THEN hlog[1].code ELSE hhist.stale

Again == IF hhist.sums = 0 THEN 1 ELSE 2

OneNew ==
    /\ NewOf(1)
    /\ hhist' = FreshHist
    /\ HasherRest

OneRead_sha256 ==
    \E d \in HashDigests :
        /\ Read_sha256Of(1, d)
        /\ hhist' = [op |-> "read_sha256", text |-> NoText, stale |-> StaleAt, sums |-> 0]
        /\ HasherRest

OneRead ==
    \E d \in HashDigests, readOk \in BOOLEAN :
        /\ ReadOf(1, d, readOk)
        /\ hhist' = [op |-> "read", text |-> NoText,
                     stale |-> IF readOk THEN StaleAt ELSE hhist.stale,
                     sums |-> IF readOk THEN 0 ELSE hhist.sums]
        /\ HasherRest

OneSum ==
    /\ SumOf(1)
    /\ hhist' = [hhist EXCEPT !.op = "sum", !.text = NoText, !.sums = Again]
    /\ HasherRest

OneHex ==
    /\ HexOf(1)
    /\ hhist' = [hhist EXCEPT !.op = "hex", !.text = hex(hashers[1]).text,
                                !.sums = Again]
    /\ HasherRest

NextHasherOne == OneNew \/ OneRead_sha256 \/ OneRead \/ OneSum \/ OneHex

SpecHasherOne == InitHasher /\ [][NextHasherOne]_vars

\* C21: a sum, by itself or in hex, leaves the stored digests what they
\* were as a multiset, and returns what the sum before it returned when
\* nothing was ingested in between; so does hex with its string
C21_SumIdempotent ==
    [][hhist'.op \in {"sum", "hex"} =>
          /\ Len(hashers'[1].sha256s) = Len(hashers[1].sha256s)
          /\ SameMultiset(hashers'[1].sha256s, hashers[1].sha256s)
          /\ hlog[1].code # NoCode => hlog'[1].code = hlog[1].code
          /\ (hhist.text # NoText /\ hhist'.op = "hex") => hhist'.text = hhist.text]_vars

\* sum has run a second time, in hex, on three digests ingested out of order
C21_Witness ==
    /\ hhist.sums = 2 /\ hhist.op = "hex"
    /\ Len(hlog[1].ingested) = MaxIngest
    /\ hlog[1].ingested \notin Ascending(hlog[1].ingested)
    /\ Len(hashers[1].sha256s) = MaxIngest

\* C22: a sum that follows ingests that followed a sum returns the code of
\* all the digests ingested, before and after the earlier sum, fed in
\* ascending order: not the code returned earlier, and not that of the list
\* as the ingests left it
C22_SumAfterIngestAfterSum ==
    (hhist.stale # NoCode /\ hlog[1].code # NoCode) =>
        /\ hlog[1].code # hhist.stale
        /\ hashers[1].sha256s \in Ascending(hlog[1].ingested)
        /\ hlog[1].code = [version |-> VersionPrefix, hash |-> Sha256(hashers[1].sha256s)]

\* a digest smaller than one already summed was ingested, and sum has run
\* again
C22_Witness ==
    /\ hhist.stale # NoCode /\ hlog[1].code # NoCode /\ hhist.op = "sum"
    /\ Len(hlog[1].ingested) = MaxIngest
    /\ hlog[1].ingested[MaxIngest] < hlog[1].ingested[1]
    /\ hhist.stale.hash = Sha256(sort(SubSeq(hlog[1].ingested, 1, MaxIngest - 1)))

\* the last call pushed a digest
Mutated ==
    \/ hhist.op = "read_sha256"
    \/ hhist.op = "read" /\ hlog[1].result = "Ok"

\* C23: when a read_sha256 or a successful read has returned, the sorted
\* flag is false, whatever it was before; no step that adds a digest
\* leaves it true
C23_MutationClearsSorted ==
    /\ [](Mutated => ~hashers[1].sorted)
    /\ [][Len(hashers'[1].sha256s) > Len(hashers[1].sha256s) => ~hashers'[1].sorted]_vars

\* a read has pushed a digest onto a list that sum had just sorted
C23_Witness ==
    /\ hhist.op = "read" /\ hlog[1].result = "Ok"
    /\ Len(hlog[1].ingested) = MaxIngest
    /\ hhist.stale = [version |-> VersionPrefix,
                      hash |-> Sha256(sort(SubSeq(hlog[1].ingested, 1, MaxIngest - 1)))]
    /\ ~hashers[1].sorted

\* C24: every code sum has returned, that of a hasher that has ingested
\* nothing included, is 37 bytes long and begins with the bytes 46 56 43
\* 32 00 (hexadecimal), which are the first ten digits hex returns
C24_CodeLengthAndPrefix ==
    /\ hlog[1].code # NoCode =>
          /\ CodeLen(hlog[1].code) = 37
          /\ SubSeq(hlog[1].code.version, 1, 5)
                = <<4 * 16 + 6, 5 * 16 + 6, 4 * 16 + 3, 3 * 16 + 2, 0>>
    /\ hhist.text # NoText =>
          SubSeq(hhist.text.version, 1, 10)
                = <<"4", "6", "5", "6", "4", "3", "3", "2", "0", "0">>

\* hex has run on a hasher that has ingested nothing
C24_Witness ==
    /\ hlog[1].ingested = <<>> /\ hashers[1].sha256s = <<>>
    /\ hhist.op = "hex" /\ hhist.text # NoText
    /\ hlog[1].code = [version |-> VersionPrefix, hash |-> Sha256(<<>>)]

\* a sequence without the first occurrence of d
RECURSIVE WithoutOne(_, _)
WithoutOne(q, d) ==
    IF q = <<>> THEN <<>>
    ELSE IF Head(q) = d THEN Tail(q)
    ELSE <<Head(q)>> \o WithoutOne(Tail(q), d)

\* C25: duplicates are kept.  A run that ends Ok has stored one entry for
\* every regular file among the inputs (policy None), or for every plain
\* file under the inputs, through every archive and every copy of an
\* archive (extraction succeeding), however many of them are byte-identical;
\* and the code of digests among which one occurs twice or more is not the
\* code of the same digests with one occurrence less.
C25_DuplicatesPreserved ==
    (pc = "ok" /\ ~envFault) =>
        /\ policy = "None" =>
              \A d \in TravDigests : Count(sha256s, d) = Count(InputFiles, d)
        /\ PlainPackaging =>
              \A d \in TravDigests : Count(sha256s, d) = Count(InputLeaves, d)
        /\ \A d \in TravDigests :
              Count(sha256s, d) >= 2 =>
                 FVC # sum(read_sha256s(FVC2Hasher_new, WithoutOne(sha256s, d))).code

\* a run ended Ok on a directory of two byte-identical files
C25_Witness ==
    /\ pc = "ok" /\ ~envFault
    /\ \E i \in 1..Len(inputs) :
          /\ inputs[i].kind = "dir" /\ Len(inputs[i].listing) = 2
          /\ inputs[i].listing[1].sha256 = inputs[i].listing[2].sha256
          /\ Count(sha256s, inputs[i].listing[1].sha256) = 2
    /\ FVC.hash = Sha256(<<sha256s[1], sha256s[1]>>)

\* hasher.read(file) for each file of a list, every read succeeding; ds:
\* the digests of the files' bytes
RECURSIVE reads(_, _)
reads(h, ds) ==
    IF ds = <<>> THEN h ELSE reads(read(h, Head(ds), TRUE).hasher, Tail(ds))

\* the lists of up to k digests
DigestLists(k) == UNION {[1..n -> HashDigests] : n \in 0..k}

\* C26: a read that succeeds leaves the hasher as read_sha256 of the digest
\* of the bytes read would have left it, and with the same sum and hex to
\* follow; a list of files fed through read and the list of their digests
\* fed through read_sha256 give the same hasher, code and string
C26_ReadAsReadSha256 ==
    /\ [](\A i \in 1..2 :
             hlog[i].ingested = <<>> => \A ds \in DigestLists(MaxIngest) :
                /\ reads(hashers[i], ds) = read_sha256s(hashers[i], ds)
                /\ hex(reads(hashers[i], ds)) = hex(read_sha256s(hashers[i], ds)))
    /\ [][\A i \in 1..2 :
             (Len(hlog'[i].ingested) > Len(hlog[i].ingested) /\ hlog'[i].result = "Ok") =>
                LET d == hlog'[i].ingested[Len(hlog'[i].ingested)]
                IN  /\ hashers'[i] = read_sha256(hashers[i], d)
                    /\ sum(hashers'[i]) = sum(read_sha256(hashers[i], d))]_vars

\* one hasher has taken three files through read, the other their digests
\* through read_sha256, after a sum each, and they are in the same state
C26_Witness ==
    /\ Len(hlog[1].ingested) = MaxIngest
    /\ hlog[1].ingested = hlog[2].ingested
    /\ hlog[1].result = "Ok"
    /\ hlog[2].result = "none" /\ hlog[2].code = NoCode
    /\ hashers[1] = hashers[2]
    /\ hashers[1].sha256s # hlog[1].ingested

\* ------------------------------------------------------------------------
\* extract.rs : is_extractable, computed from the path
\* ------------------------------------------------------------------------
\* how many directories a path names before its file name
MaxDirs == 2

\* list of known archive extensions
VALID_EXTENSIONS ==
    <<"ar", "arj", "cpio", "dump", "jar", "7z", "zip", "pack", "pack2000", "tar",
      "bz2", "gz", "lzma", "snz", "xz", "z", "tgz", "rpm", "gem", "deb", "whl",
      "apk", "zst">>

\* extensions in other spellings, and extensions of other files
OtherExtensions == {"ZIP", "Tar", "Tgz", "PACK", "txt", "idx", "zipx"}

\* what Path::extension and OsStr::to_str make of a file name: no
\* extension, an extension that is not UTF-8, or a string
Extensions ==
    {[tag |-> "None"], [tag |-> "NonUtf8"]}
        \cup {[tag |-> "Str", s |-> x] :
                 x \in {VALID_EXTENSIONS[k] : k \in 1..Len(VALID_EXTENSIONS)}
                          \cup OtherExtensions}

DirNames == {"objects", "repo"}

Paths ==
    [root : BOOLEAN,
     dirs : UNION {[1..n -> DirNames] : n \in 0..MaxDirs},
     stem : {"pack-abc"},
     ext : Extensions]

\* Path::parent, then to_str: the path without its file name, as the
\* sequence of its separators and directory names
RECURSIVE join(_)
join(dirs) ==
    IF dirs = <<>> THEN <<>>
    ELSE IF Len(dirs) = 1 THEN dirs
    ELSE <<Head(dirs), "/">> \o join(Tail(dirs))

parent_to_str(path) == (IF path.root THEN <<"/">> ELSE <<>>) \o join(path.dirs)

\* match parent.to_str() { Some("objects") => true, _ => false }
in_objects_dir(path) == parent_to_str(path) = <<"objects">>

\* idx_path.set_extension("idx") is true for a path with a file name;
\* idx_exists: whether that path exists
has_idx(path, idx_exists) == idx_exists

\* an is_extractable that rates a pack file 100 unless both signs of a git
\* pack are there
is_extractable_path_no_maybe(path, idx_exists) ==
    IF path.ext.tag # "Str" THEN 0
    ELSE IF path.ext.s = "pack"
    THEN (IF has_idx(path, idx_exists) /\ in_objects_dir(path) THEN 0 ELSE 100)
    ELSE IF \E k \in 1..Len(VALID_EXTENSIONS) : path.ext.s = VALID_EXTENSIONS[k]
    THEN 100
    ELSE 0

\* is_extractable
is_extractable_path(path, idx_exists) ==
    IF path.ext.tag = "None" THEN 0
    ELSE IF path.ext.tag = "NonUtf8" THEN 0
    ELSE IF path.ext.s = "pack"
    THEN (IF has_idx(path, idx_exists) /\ in_objects_dir(path) THEN 0
          ELSE IF has_idx(path, idx_exists) \/ in_objects_dir(path) THEN 50
          ELSE 100)
    ELSE IF \E k \in 1..Len(VALID_EXTENSIONS) : path.ext.s = VALID_EXTENSIONS[k]
    THEN 100
    ELSE 0

ExtractRest == UNCHANGED <<dagVars, travVars, hashVars, tree>>

InitExtract ==
    /\ dag = ArchiveGraph_new
    /\ lastOp = [op |-> "new", a |-> 0, b |-> 0, result |-> "", before |-> ArchiveGraph_new]
    /\ HasherIdle
    /\ policy = "None" /\ contents = <<>> /\ inputs = <<>>
    /\ pc = "idle" /\ idx = 0 /\ collections = <<>> /\ stack = <<>> /\ ret = NoRet
    /\ graph = ArchiveGraph_new /\ tmpLive = {}
    /\ sha256s = <<>> /\ sorted = FALSE /\ envFault = FALSE /\ ioError = FALSE /\ runs = <<>>
    /\ cls \in [path : Paths, idx : BOOLEAN, result : {NotRated}]
    /\ TreeIdle

\* is_extractable(path)
Rate ==
    /\ cls.result = NotRated
    /\ cls' = [cls EXCEPT !.result = is_extractable_path(cls.path, cls.idx)]
    /\ ExtractRest

\* the next path is taken up
NextPath ==
    /\ cls.result # NotRated
    /\ cls' \in [path : Paths, idx : BOOLEAN, result : {NotRated}]
    /\ ExtractRest

NextExtract == Rate \/ NextPath

SpecExtract == InitExtract /\ [][NextExtract]_vars

Rated == cls.result # NotRated
IsPack == cls.path.ext.tag = "Str" /\ cls.path.ext.s = "pack"

\* C27: is_extractable returns 0, 50 or 100; for the extension pack 0 when
\* has_idx and in_objects_dir are both true, 50 when exactly one is, 100
\* when neither is; 0 for a path with no extension or with an extension
\* that is no text
C27_PackConfidence ==
    Rated =>
        /\ cls.result \in {0, 50, 100}
        /\ cls.path.ext.tag \in {"None", "NonUtf8"} => cls.result = 0
        /\ IsPack =>
              LET a == has_idx(cls.path, cls.idx)
                  b == in_objects_dir(cls.path)
              IN  /\ (a /\ b) => cls.result = 0
                  /\ (a # b) => cls.result = 50
                  /\ (~a /\ ~b) => cls.result = 100

\* a pack file with an .idx sibling outside any objects directory has been
\* rated 50
C27_Witness ==
    /\ Rated /\ IsPack /\ cls.idx /\ cls.path.dirs = <<"repo">> /\ cls.result = 50

\* the name of the directory a path's file lies in, "" when the path names
\* none
ParentName(path) == IF path.dirs = <<>> THEN "" ELSE path.dirs[Len(path.dirs)]

\* C28: in_objects_dir is true exactly when the directory the file lies in
\* is named objects, whatever directories come before it in the path; a
\* pack file in such a directory that has an .idx sibling is rated 0
C28_ObjectsDirIsParentComponent ==
    (Rated /\ IsPack) =>
        /\ in_objects_dir(cls.path) <=> ParentName(cls.path) = "objects"
        /\ (ParentName(cls.path) = "objects" /\ cls.idx) => cls.result = 0

\* an extension in lowercase
ToLower(s) ==
    CASE s = "ZIP" -> "zip"
      [] s = "Tar" -> "tar"
      [] s = "Tgz" -> "tgz"
      [] s = "PACK" -> "pack"
      [] OTHER -> s

\* the extensions rated 100 without a look at the files around
ArchiveExtensions ==
    {"ar", "arj", "cpio", "dump", "jar", "7z", "zip", "pack2000", "tar", "bz2",
     "gz", "lzma", "snz", "xz", "z", "tgz", "rpm", "gem", "deb", "whl", "apk", "zst"}

\* C29: a path whose extension is not pack is rated 100 when the extension,
\* put in lowercase, is one of the archive extensions, and 0 otherwise
C29_ExtensionCaseInsensitive ==
    (Rated /\ cls.path.ext.tag = "Str" /\ cls.path.ext.s # "pack") =>
        cls.result = IF ToLower(cls.path.ext.s) \in ArchiveExtensions THEN 100 ELSE 0

\* ------------------------------------------------------------------------
\* archive_tree/mod.rs : an Archive record, serde_json::to_string_pretty
\* and serde_json::from_str
\* ------------------------------------------------------------------------
\* how many files an Archive record is given
MaxTreeFiles == 2

\* paths: the directory, the file name, and whether the bytes of the file
\* name are valid UTF-8
TreeSources == {[dir |-> "./test_data", file |-> "foo_bar_zap.tar.zst", utf8 |-> TRUE]}
TreePaths ==
    {[dir |-> "./test_data/foo_bar_zap.d", file |-> "foo.txt", utf8 |-> TRUE],
     [dir |-> "./test_data/foo_bar_zap.d", file |-> "bar.txt", utf8 |-> TRUE],
     [dir |-> "./test_data/foo_bar_zap.d", file |-> "caf\\xE9.txt", utf8 |-> FALSE]}

\* u64
TreeSizes == {0, 4, 132}

\* [u8; 32]
TreeDigests == {[k \in 1..Sha256Len |-> (d + 7 * k) % 256] : d \in {0, 181}}

\* file_name().to_string_lossy(): the bytes that are no UTF-8 are replaced
to_string_lossy(path) == IF path.utf8 THEN path.file ELSE "caf\\uFFFD.txt"

\* File::new with the size and the digest given
File_record(file_path, size, sha256) ==
    [name |-> to_string_lossy(file_path), size |-> size, sha256 |-> sha256]

\* Archive::new with the size and the digest given
Archive_record(source, size, sha256) ==
    [name |-> to_string_lossy(source), size |-> size, sha256 |-> sha256,
     files |-> <<>>, archives |-> <<>>]

\* Archive::add_file
add_file(archive, file_path, size, sha256) ==
    [archive EXCEPT !.files = MapPut(archive.files, file_path,
                                     File_record(file_path, size, sha256))]

\* a u64 in JSON: its decimal digits
RECURSIVE to_digits(_)
to_digits(n) ==
    IF n < 10 THEN <<HexDigits[n + 1]>>
    ELSE Append(to_digits(n \div 10), HexDigits[(n % 10) + 1])

DigitValue(c) == (CHOOSE k \in 1..16 : HexDigits[k] = c) - 1

RECURSIVE from_digits(_)
from_digits(ds) ==
    IF Len(ds) = 1 THEN DigitValue(ds[1])
    ELSE 10 * from_digits(SubSeq(ds, 1, Len(ds) - 1)) + DigitValue(ds[Len(ds)])

\* SerHex::<Strict>, from_hex: exactly two digits for each byte of the array
from_hex(cs) ==
    IF Len(cs) # 2 * Sha256Len \/ \E k \in 1..Len(cs) : cs[k] \notin {HexDigits[j] : j \in 1..16}
    THEN [tag |-> "Err"]
    ELSE [tag |-> "Ok",
          bytes |-> [k \in 1..Sha256Len |->
                        16 * DigitValue(cs[2 * k - 1]) + DigitValue(cs[2 * k])]]

\* Serialize for Path: the path as a string, an error when it is no UTF-8
path_to_str(path) ==
    IF path.utf8 THEN [tag |-> "Ok", s |-> <<path.dir, "/", path.file>>]
    ELSE [tag |-> "Err"]

\* Deserialize for PathBuf
path_from_str(s) == [dir |-> s[1], file |-> s[3], utf8 |-> TRUE]

\* #[derive(Serialize)] for File: a JSON object
file_to_json(f) ==
    [name |-> f.name, size |-> to_digits(f.size), sha256 |-> encode_hex_bytes(f.sha256)]

\* #[derive(Deserialize)] for File
file_from_json(j) ==
    [name |-> j.name, size |-> from_digits(j.size), sha256 |-> from_hex(j.sha256).bytes]

\* serde_json::to_string_pretty(&archive), for an Archive without archives
\* in it: a map is written as an object keyed by the strings of its keys
to_string_pretty(a) ==
    IF \E k \in DOMAIN a.files : path_to_str(k).tag = "Err"
    THEN [tag |-> "Err"]
    ELSE [tag |-> "Ok",
          json |-> [name |-> a.name, size |-> to_digits(a.size),
                    sha256 |-> encode_hex_bytes(a.sha256),
                    files |-> [s \in {path_to_str(k).s : k \in DOMAIN a.files} |->
                                  file_to_json(a.files[CHOOSE k \in DOMAIN a.files :
                                                          path_to_str(k).s = s])],
                    archives |-> <<>>]]

\* serde_json::from_str::<Archive>
from_str(j) ==
    IF from_hex(j.sha256).tag = "Err"
          \/ \E s \in DOMAIN j.files : from_hex(j.files[s].sha256).tag = "Err"
    THEN [tag |-> "Err"]
    ELSE [tag |-> "Ok",
          archive |-> [name |-> j.name, size |-> from_digits(j.size),
                       sha256 |-> from_hex(j.sha256).bytes,
                       files |-> [k \in {path_from_str(s) : s \in DOMAIN j.files} |->
                                     file_from_json(j.files[<<k.dir, "/", k.file>>])],
                       archives |-> <<>>]]

TreeRest == UNCHANGED <<dagVars, travVars, hashVars, cls>>

InitTree ==
    /\ dag = ArchiveGraph_new
    /\ lastOp = [op |-> "new", a |-> 0, b |-> 0, result |-> "", before |-> ArchiveGraph_new]
    /\ HasherIdle /\ ExtractIdle /\ TreeIdle
    /\ policy = "None" /\ contents = <<>> /\ inputs = <<>>
    /\ pc = "idle" /\ idx = 0 /\ collections = <<>> /\ stack = <<>> /\ ret = NoRet
    /\ graph = ArchiveGraph_new /\ tmpLive = {}
    /\ sha256s = <<>> /\ sorted = FALSE /\ envFault = FALSE /\ ioError = FALSE /\ runs = <<>>

\* let mut archive = Archive::new(source, Some(size), Some(sha256))
TreeNew ==
    /\ tree.archive = Nothing
    /\ \E source \in TreeSources, size \in TreeSizes, sha256 \in TreeDigests :
          tree' = [tree EXCEPT !.archive = Archive_record(source, size, sha256)]
    /\ TreeRest

\* archive.add_file(file_path, Some(size), Some(sha256))
TreeAddFile ==
    /\ tree.archive # Nothing /\ tree.serialized = Nothing
    /\ \E file_path \in TreePaths, size \in TreeSizes, sha256 \in TreeDigests :
          /\ file_path \in DOMAIN tree.archive.files
                \/ Cardinality(DOMAIN tree.archive.files) < MaxTreeFiles
          /\ tree' = [tree EXCEPT !.archive = add_file(tree.archive, file_path, size, sha256)]
    /\ TreeRest

\* let serialized = serde_json::to_string_pretty(&archive)
TreeSerialize ==
    /\ tree.archive # Nothing /\ tree.serialized = Nothing
    /\ tree' = [tree EXCEPT !.serialized = to_string_pretty(tree.archive)]
    /\ TreeRest

\* let deserialized: Archive = serde_json::from_str(&serialized)
TreeDeserialize ==
    /\ tree.serialized # Nothing /\ tree.serialized.tag = "Ok"
    /\ tree.deserialized = Nothing
    /\ tree' = [tree EXCEPT !.deserialized = from_str(tree.serialized.json)]
    /\ TreeRest

NextTree == TreeNew \/ TreeAddFile \/ TreeSerialize \/ TreeDeserialize

SpecTree == InitTree /\ [][NextTree]_vars

\* C30: an Archive built with Archive::new and add_file is serialized to
\* JSON, and what is read back from the JSON equals it
C30_JsonRoundTrip ==
    /\ tree.serialized # Nothing => tree.serialized.tag = "Ok"
    /\ tree.deserialized # Nothing =>
          tree.deserialized = [tag |-> "Ok", archive |-> tree.archive]

\* ------------------------------------------------------------------------
\* Further properties of the graph (SpecDag)
\* ------------------------------------------------------------------------
\* C31: on every graph that insert and add_edge can build from the empty
\* one, the search archive_can_find(start, destination) returns, for every
\* start and destination, and so did the search of the last add_edge; no
\* digest of such a graph reaches itself.
C31_SearchTerminates ==
    /\ \A start \in DagDigests, destination \in DagDigests :
           archive_can_find(dag, start, destination) \in {"true", "false"}
    /\ lastOp.result # "Diverge"
    /\ \A d \in DOMAIN dag : ~Reaches(dag, d, d)

\* the search of the last add_edge found its destination two or more
\* edges away from where it started
C31_Witness ==
    /\ lastOp.op = "add_edge"
    /\ lastOp.result = "CycleDetected"
    /\ lastOp.a # lastOp.b
    /\ <<lastOp.b, lastOp.a>> \notin EdgesOf(lastOp.before)
    /\ archive_can_find(lastOp.before, lastOp.b, lastOp.a) = "true"

\* ------------------------------------------------------------------------
\* Further properties of the traversal (SpecTrav)
\* ------------------------------------------------------------------------
\* extract_or_process_file is about to call add_edge(current, digest): the
\* file is read, its digest is a known archive and the file lies in an
\* extracted archive
AtAddEdge ==
    /\ pc = "run" /\ stack # <<>> /\ ret = NoRet
    /\ Top.k = "file" /\ Top.pc = "begin"
    /\ policy # "None"
    /\ Top.current # 0
    /\ contains(graph, Top.entry.sha256)

\* C32: the current digest of every call under way is registered in the
\* graph, so an add_edge(current, d) of the traversal never returns
\* KeyMissing and the panic "key missing for known archive" is never
\* reached.
C32_CurrentIsRegistered ==
    /\ \A i \in 1..Len(stack) :
           stack[i].current # 0 => contains(graph, stack[i].current)
    /\ AtAddEdge =>
           add_edge(graph, Top.current, Top.entry.sha256).result # "KeyMissing"

\* add_edge(current, d) was called for a known archive d and returned Ok
C32_Witness ==
    /\ pc = "run" /\ stack # <<>>
    /\ Top.k = "file" /\ Top.pc = "open" /\ Top.branch = "known"
    /\ Top.current # 0
    /\ <<Top.current, Top.entry.sha256>> \in EdgesOf(graph)

\* C33: until calculate_fvc has processed every input path the hasher
\* holds what it held when the call began (nothing: the caller passes a new
\* hasher), so a call that returns an error, or ends in a panic, has fed it
\* no digest; and no step but the hashing of the collections at the end
\* changes the hasher.
C33_ErrorLeavesHasher ==
    /\ [](pc # "ok" => (sha256s = FVC2Hasher_new.sha256s /\ sorted = FVC2Hasher_new.sorted))
    /\ [][(sha256s' # sha256s \/ sorted' # sorted) =>
             (pc = "run" /\ pc' = "ok" /\ idx > Len(inputs)
                /\ Len(collections) = Len(inputs))]_vars

\* calculate_fvc returned an error for a later input path after an earlier
\* one gave a collection that holds a digest to feed
C33_Witness ==
    /\ pc = "err"
    /\ \E i \in 1..Len(collections) : hash_collection(collections[i]) # {<<>>}

\* ------------------------------------------------------------------------
\* Further properties of the hasher (SpecHasherOne)
\* ------------------------------------------------------------------------
\* the last call was a read whose reader failed
ReadFailed == hhist.op = "read" /\ hlog[1].result = "Err"

\* C34: a read whose reader fails returns the error and leaves the hasher
\* as it was: no digest is appended, the list keeps its order and the
\* sorted flag keeps its value, so a following sum returns what it would
\* have returned before.
C34_FailedReadLeavesHasher ==
    [][ReadFailed' =>
          /\ hashers'[1] = hashers[1]
          /\ hlog'[1].ingested = hlog[1].ingested
          /\ sum(hashers'[1]) = sum(hashers[1])]_vars

\* a read failed on a hasher that holds digests which sum had sorted
C34_Witness ==
    /\ ReadFailed
    /\ hashers[1].sorted
    /\ Len(hashers[1].sha256s) >= 2
    /\ hashers[1].sha256s[1] # hashers[1].sha256s[2]

\* no archive of the filesystem holds a copy of itself, at any depth
AcyclicContainment ==
    \A a \in TravArch : <<a, a>> \notin TransitiveClosure(ContainsRel)

\* C35: when no archive contains a copy of itself, directly or through
\* other archives, every add_edge of the traversal returns Ok, also for an
\* archive met a second time in the same archive, and no file is skipped:
\* the only Ok(Empty) is that of an input path that is neither a file nor a
\* directory.
C35_NoFalseCycle ==
    AcyclicContainment =>
        /\ AtAddEdge =>
               add_edge(graph, Top.current, Top.entry.sha256).result = "Ok"
        /\ (pc = "run" /\ ret = RetOk(Empty)) => stack = <<>>
        /\ \A d \in DOMAIN graph : ~Reaches(graph, d, d)

\* an archive that holds two copies of another archive was processed to
\* the end: the second copy was met as a known archive and extracted again
C35_Witness ==
    /\ AcyclicContainment
    /\ pc = "ok" /\ ~envFault
    /\ \E a \in DOMAIN graph : \E b \in TravArch :
          /\ graph[a].sub_archives = <<b>>
          /\ Count([i \in 1..Len(contents[a]) |-> contents[a][i].sha256], b) = 2

\* ------------------------------------------------------------------------
\* One input path processed alone
\* ------------------------------------------------------------------------
\* what a directory walk does with the collection of a file
\* (calculate_fvc_of, the match on the result of extract_or_process_file)
directory_insert(dir, i, c) ==
    IF c.tag = "File" THEN [dir EXCEPT !.files = MapPut(@, i, c)]
    ELSE IF c.tag = "Archive" THEN [dir EXCEPT !.archives = MapPut(@, i, c)]
    ELSE dir

\* extract_or_process_file and the WalkDir loop of calculate_fvc_of as
\* functions: the graph and the collection a call can return, from graph g
\* inside archive current (0: none), when nothing in the environment
\* fails.  The walk visits the files still to do in any order; a call that
\* panics returns nothing.
RECURSIVE extract_or_process_file(_, _, _), walk_dir(_, _, _, _, _)
extract_or_process_file(g, current, entry) ==
    LET d == entry.sha256
        file == {[graph |-> g, val |-> File_new(d)]}
        extracted(g1) ==
            {[graph |-> o.graph, val |-> lift_collection(Archive_new(d), o.val)] :
                o \in walk_dir(g1, d, contents[d], 1..Len(contents[d]), Directory_new)}
    IN  IF policy = "None" THEN file
        ELSE IF contains(g, d) /\ current # 0
        THEN LET r == add_edge(g, current, d) IN
             IF r.result = "Ok" THEN extracted(r.graph)
             ELSE IF r.result = "CycleDetected" THEN {[graph |-> g, val |-> Empty]}
             ELSE {}
        ELSE IF contains(g, d) THEN extracted(g)
        ELSE IF policy = "Extension" /\ is_extractable(entry) = 0 THEN file
        ELSE IF d \in TravArch THEN extracted(insert(g, d))
        ELSE file

walk_dir(g, current, listing, todo, dir) ==
    IF todo = {} THEN {[graph |-> g, val |-> dir]}
    ELSE UNION {UNION {walk_dir(o.graph, current, listing, todo \ {i},
                                directory_insert(dir, i, o.val)) :
                          o \in extract_or_process_file(g, current, listing[i])} :
                   i \in todo}

\* calculate_fvc_of(&mut ArchiveGraph::new(), None, path): the collections
\* it can return for an input path
calculate_fvc_of(path) ==
    IF path.kind = "file"
    THEN {o.val : o \in extract_or_process_file(ArchiveGraph_new, 0, path.entry)}
    ELSE IF path.kind = "dir"
    THEN {o.val : o \in walk_dir(ArchiveGraph_new, 0, path.listing,
                                 1..Len(path.listing), Directory_new)}
    ELSE {Empty}

\* the digests hash_collection feeds for each of the collections, in one
\* of its orders
FedFor(cs) ==
    FlattenSeq([i \in 1..Len(cs) |-> CHOOSE q \in hash_collection(cs[i]) : TRUE])

\* C36: the traversal of each input path begins with an empty graph of its
\* own; the collection it returns, the environment not failing, is one the
\* path gives when it is processed by itself, whatever paths came before
\* it; and the digests fed to the hasher are, as a multiset, those of the
\* collections of the input paths put together.
C36_InputsIndependent ==
    /\ [][(stack = <<>> /\ stack' # <<>>) => graph' = ArchiveGraph_new]_vars
    /\ []((pc = "run" /\ stack = <<>> /\ ret.tag = "Ok" /\ ~envFault) =>
             ret.val \in calculate_fvc_of(inputs[idx]))
    /\ []((pc = "ok" /\ ~envFault) =>
             /\ Len(collections) = Len(inputs)
             /\ \A i \in 1..Len(inputs) : collections[i] \in calculate_fvc_of(inputs[i])
             /\ sort(sha256s) = sort(FedFor(collections)))

\* an archive was given twice, the second time under a name that is not
\* extracted: it was extracted as the first input and hashed as a file as
\* the second
C36_Witness ==
    /\ pc = "ok" /\ ~envFault
    /\ Len(inputs) = 2
    /\ inputs[1].kind = "file" /\ inputs[2].kind = "file"
    /\ inputs[1].entry.sha256 = inputs[2].entry.sha256
    /\ collections[1].tag = "Archive"
    /\ collections[2].tag = "File"
    /\ Len(sha256s) >= 2

\* s is the beginning of t
IsPrefix(s, t) == Len(s) <= Len(t) /\ SubSeq(t, 1, Len(s)) = s

\* C37: while an input path is traversed the graph only grows: every step
\* keeps the registered digests and, of each, the sub archives recorded so
\* far and their order; and where an extraction arm is about to call
\* insert, the digest is not registered.
C37_GraphOnlyGrows ==
    /\ [][stack # <<>> =>
             \A d \in DOMAIN graph :
                /\ d \in DOMAIN graph'
                /\ graph'[d].sha256 = graph[d].sha256
                /\ IsPrefix(graph[d].sub_archives, graph'[d].sub_archives)]_vars
    /\ []((/\ pc = "run" /\ stack # <<>> /\ ret = NoRet
           /\ Top.k = "file" /\ Top.pc = "open" /\ Top.branch # "known")
             => ~contains(graph, Top.entry.sha256))

\* a digest was registered and an edge recorded while a traversal is still
\* under way, three calls deep or more
C37_Witness ==
    /\ pc = "run" /\ Len(stack) >= 3
    /\ Cardinality(DOMAIN graph) = 2
    /\ EdgesOf(graph) # {}

\* the digests of a list are in ascending order
InOrder(ds) == \A j \in 1..(Len(ds) - 1) : ds[j] <= ds[j + 1]

\* C38: whenever the sorted flag of a hasher is true its digests are in
\* ascending order; and the flag becomes true only in a sum, called
\* directly or by hex, which leaves the digests it held sorted.
C38_SortedMeansAscending ==
    /\ [](hashers[1].sorted => InOrder(hashers[1].sha256s))
    /\ [][(~hashers[1].sorted /\ hashers'[1].sorted) =>
             /\ hhist'.op \in {"sum", "hex"}
             /\ hashers'[1].sha256s = sort(hashers[1].sha256s)]_vars

\* sum has sorted digests that were ingested in descending order
C38_Witness ==
    /\ hashers[1].sorted
    /\ Len(hlog[1].ingested) >= 2
    /\ ~InOrder(hlog[1].ingested)
    /\ hashers[1].sha256s # hlog[1].ingested

====
